---- MODULE Spec2Model ----
(***************************************************************************)
(* AI Debate Arena: the debate engine (src/debate_engine.py) and the       *)
(* application that drives it (src/app.py).                                *)
(*                                                                         *)
(* A Python string is modelled as a sequence of tokens (TLA+ strings): an  *)
(* f-string is the concatenation of its literal pieces and of the values   *)
(* it interpolates, `x in s` is the occurrence of a token, s[:n] is a      *)
(* prefix.  A vendor's answer is an input: each call draws either a text   *)
(* the vendor returned or an exception its client library raised.          *)
(***************************************************************************)
EXTENDS Integers, Sequences, FiniteSets, TLC

VARIABLES
    env,                \* the credentials present in the process environment
    anthropic_client,   \* DebateEngine.anthropic_client is not None
    rounds, mode, ai_pro, ai_con,   \* the arguments of run_debate
    pc,                 \* position of run_debate
    instruction_suffix, round_num,
    pro_prompt, con_prompt, pro_response, con_response,
    debate_log,
    calls,              \* every get_response invocation, in order
    gr_ai, gr_result, gr_vendor,   \* one get_response call on its own
    judge_ai, judge_pc, judge_response, judging,   \* one judge_debate call
    enable_judging, enable_audio,   \* the sidebar's two checkboxes
    app_pc,             \* position of the application's run
    missing_keys, has_errors, summary, audio_data,
    screen,             \* what the application has shown, in order
    stages,             \* the starts and ends of the pipeline's stages, in order
    tts                 \* every synthesize_speech call, in order

vars == <<env, anthropic_client, rounds, mode, ai_pro, ai_con, pc,
          instruction_suffix, round_num, pro_prompt, con_prompt,
          pro_response, con_response, debate_log, calls,
          gr_ai, gr_result, gr_vendor,
          judge_ai, judge_pc, judge_response, judging,
          enable_judging, enable_audio, app_pc, missing_keys, has_errors,
          summary, audio_data, screen, stages, tts>>

debateVars == <<rounds, mode, ai_pro, ai_con, pc, instruction_suffix,
                round_num, pro_prompt, con_prompt, pro_response,
                con_response, debate_log, calls>>
routerVars == <<gr_ai, gr_result, gr_vendor>>
judgeVars  == <<judge_ai, judge_pc, judge_response, judging>>
appVars    == <<enable_judging, enable_audio, app_pc, missing_keys, has_errors,
                summary, audio_data, screen, stages, tts>>

----------------------------------------------------------------------------
(* Bounds of the model *)

MaxRounds == 3
MaxScore == 2       \* scores a judge model writes: 0..MaxScore
LongProse == 201    \* tokens of the longest prose a judge model writes

(* Program constants *)

WordLimit == 200
JudgeMaxWords == 800
SnippetLen == 200

Topic == "X should happen"

----------------------------------------------------------------------------
(* Strings *)

ERR == "[ERROR:"

Contains(text, tok) == \E i \in 1..Len(text) : text[i] = tok

\* str.startswith mistaken for a substring test
StartsWith_anywhere(s, p) ==
    \E i \in 1..Len(s) : i + Len(p) - 1 <= Len(s) /\ SubSeq(s, i, i + Len(p) - 1) = p

StartsWith(s, p) == Len(s) >= Len(p) /\ SubSeq(s, 1, Len(p)) = p

Min(a, b) == IF a <= b THEN a ELSE b

----------------------------------------------------------------------------
(* Vendors.  One outcome per call: the text the vendor returned, or the    *)
(* exception raised while calling it (text is then str(e)).                *)

Ok(t) == [kind |-> "ok", text |-> t]
Raised(d) == [kind |-> "raise", text |-> d]

DebateTexts == {<<"alpha">>, <<"beta">>}

Outcomes(texts) == {Ok(t) : t \in texts} \cup {Raised(<<"timeout">>)}

KeyNames == {"ANTHROPIC_API_KEY", "OPENAI_API_KEY", "GOOGLE_API_KEY",
             "DEEPSEEK_API_KEY", "MISTRAL_API_KEY", "COHERE_API_KEY",
             "GROQ_API_KEY", "AI21_API_KEY", "ELEVENLABS_API_KEY"}

\* os.getenv(name) is truthy
Getenv(e, name) == name \in e

\* An adapter's result: the string it returns, and whether it called the
\* vendor's client (the outbound request).
Result(t, adapter, net) == [text |-> t, adapter |-> adapter, net |-> net]

\* the exception's text returned without the error tag
Guarded_untagged(vendor, adapter, v) == Result(v.text, adapter, TRUE)

\* try: ... except Exception as e: return f"[ERROR: <vendor> API call failed - {str(e)}]"
Guarded(vendor, adapter, v) ==
    IF v.kind = "ok"
    THEN Result(v.text, adapter, TRUE)
    ELSE Result(<<ERR, vendor \o " API call failed -">> \o v.text \o <<"]">>,
                adapter, TRUE)

MissingKey(name, adapter) ==
    Result(<<ERR, name \o " not found in environment]">>, adapter, FALSE)

_get_claude_response(client, model, prompt, max_words, v) ==
    IF ~client
    THEN Result(<<ERR, "Anthropic client not initialized. Check API key.]">>,
                "claude", FALSE)
    ELSE Guarded("Claude", "claude", v)

_get_openai_response(e, model, prompt, max_words, v) ==
    Guarded("OpenAI", "openai", v)

_get_gemini_response(e, prompt, max_words, v) ==
    IF ~Getenv(e, "GOOGLE_API_KEY")
    THEN MissingKey("GOOGLE_API_KEY", "gemini")
    ELSE Guarded("Gemini", "gemini", v)

_get_deepseek_response(e, prompt, max_words, v) ==
    IF ~Getenv(e, "DEEPSEEK_API_KEY")
    THEN MissingKey("DEEPSEEK_API_KEY", "deepseek")
    ELSE Guarded("DeepSeek", "deepseek", v)

_get_mistral_response(e, prompt, max_words, v) ==
    IF ~Getenv(e, "MISTRAL_API_KEY")
    THEN MissingKey("MISTRAL_API_KEY", "mistral")
    ELSE Guarded("Mistral", "mistral", v)

_get_cohere_response(e, prompt, max_words, v) ==
    IF ~Getenv(e, "COHERE_API_KEY")
    THEN MissingKey("COHERE_API_KEY", "cohere")
    ELSE Guarded("Cohere", "cohere", v)

_get_groq_response(e, prompt, max_words, v) ==
    IF ~Getenv(e, "GROQ_API_KEY")
    THEN MissingKey("GROQ_API_KEY", "groq")
    ELSE Guarded("Groq", "groq", v)

_get_ai21_response(e, prompt, max_words, v) ==
    IF ~Getenv(e, "AI21_API_KEY")
    THEN MissingKey("AI21_API_KEY", "ai21")
    ELSE Guarded("AI21", "ai21", v)

\* get_response: dispatch on the identifier's prefix, first match wins; an
\* exception escaping the dispatch is turned into an error string.
Dispatch(e, client, ai_system, prompt, max_words, v) ==
    IF StartsWith(ai_system, "claude")
    THEN _get_claude_response(client, ai_system, prompt, max_words, v)
    ELSE IF StartsWith(ai_system, "gpt")
    THEN _get_openai_response(e, ai_system, prompt, max_words, v)
    ELSE IF StartsWith(ai_system, "gemini")
    THEN _get_gemini_response(e, prompt, max_words, v)
    ELSE IF StartsWith(ai_system, "deepseek")
    THEN _get_deepseek_response(e, prompt, max_words, v)
    ELSE IF StartsWith(ai_system, "mistral")
    THEN _get_mistral_response(e, prompt, max_words, v)
    ELSE IF StartsWith(ai_system, "cohere") \/ StartsWith(ai_system, "command")
    THEN _get_cohere_response(e, prompt, max_words, v)
    ELSE IF StartsWith(ai_system, "groq") \/ StartsWith(ai_system, "llama")
    THEN _get_groq_response(e, prompt, max_words, v)
    ELSE IF StartsWith(ai_system, "ai21") \/ StartsWith(ai_system, "jamba")
    THEN _get_ai21_response(e, prompt, max_words, v)
    ELSE Result(<<ERR, "AI system '" \o ai_system \o "' not supported]">>,
                "none", FALSE)

get_response(e, client, ai_system, prompt, max_words, v) ==
    Dispatch(e, client, ai_system, prompt, max_words, v)

\* The credential an adapter's vendor call needs (the key each adapter reads).
CredentialOf(adapter) ==
    CASE adapter = "claude"   -> "ANTHROPIC_API_KEY"
      [] adapter = "openai"   -> "OPENAI_API_KEY"
      [] adapter = "gemini"   -> "GOOGLE_API_KEY"
      [] adapter = "deepseek" -> "DEEPSEEK_API_KEY"
      [] adapter = "mistral"  -> "MISTRAL_API_KEY"
      [] adapter = "cohere"   -> "COHERE_API_KEY"
      [] adapter = "groq"     -> "GROQ_API_KEY"
      [] adapter = "ai21"     -> "AI21_API_KEY"
      [] OTHER                -> "none"

\* What a vendor call can do: without the credential the client library
\* raises; with it the vendor answers or the call fails.
VendorOutcomes(e, client, ai_system, texts) ==
    LET a == Dispatch(e, client, ai_system, <<>>, 0, Raised(<<>>)).adapter
    IN  IF Getenv(e, CredentialOf(a))
        THEN Outcomes(texts)
        ELSE {Raised(<<"no credential">>)}

----------------------------------------------------------------------------
(* run_debate *)

\* the mode compared without regard to case
InstructionSuffix_caseless(m) ==
    IF m \in {"Truth-Seeking", "truth-seeking"}
    THEN "Your goal is to find the truth together, not to win. Be willing to concede points and adjust your position based on strong arguments."
    ELSE "Present the strongest possible case for your position."

InstructionSuffix(m) ==
    IF m = "Truth-Seeking"
    THEN "Your goal is to find the truth together, not to win. Be willing to concede points and adjust your position based on strong arguments."
    ELSE "Present the strongest possible case for your position."

OpeningPrompt(topic, side, word_limit, suffix) ==
    <<"You are participating in a structured debate about:", topic,
      IF side = "PRO"
      THEN "Your position: PRO (in favor of the proposition)"
      ELSE "Your position: CON (against the proposition)",
      "Present your opening argument in approximately",
      ToString(word_limit), "words.", suffix>>

\* the rebuttal prompt without the opponent's text
RebuttalPrompt_noquote(n, topic, side, opponent, word_limit, suffix) ==
    <<"You are in round", ToString(n), "of a debate about:", topic,
      "Your position: " \o side, "Your opponent's last argument:",
      "Respond to their argument in approximately",
      ToString(word_limit), "words.", suffix>>

\* the rebuttal prompt without the mode instruction
RebuttalPrompt_nosuffix(n, topic, side, opponent, word_limit, suffix) ==
    <<"You are in round", ToString(n), "of a debate about:", topic,
      "Your position: " \o side, "Your opponent's last argument:">>
    \o opponent
    \o <<"Respond to their argument in approximately",
         ToString(word_limit), "words.">>

\* a failed opponent turn replaced by a placeholder instead of being quoted
RebuttalPrompt_placeholder(n, topic, side, opponent, word_limit, suffix) ==
    <<"You are in round", ToString(n), "of a debate about:", topic,
      "Your position: " \o side, "Your opponent's last argument:">>
    \o (IF Len(opponent) > 0 /\ opponent[1] = ERR
        THEN <<"(no argument was made)">> ELSE opponent)
    \o <<"Respond to their argument in approximately",
         ToString(word_limit), "words.", suffix>>

RebuttalPrompt(n, topic, side, opponent, word_limit, suffix) ==
    <<"You are in round", ToString(n), "of a debate about:", topic,
      "Your position: " \o side, "Your opponent's last argument:">>
    \o opponent
    \o <<"Respond to their argument in approximately",
         ToString(word_limit), "words.", suffix>>

Turn(n, pa, pr, ca, cr) ==
    [round |-> n, pro_ai |-> pa, pro_response |-> pr,
     con_ai |-> ca, con_response |-> cr]

\* One get_response invocation as a test double records it: the arguments,
\* what the vendor did (v) and what came back (r).
Call(n, side, ai, prompt, v, r) ==
    [round |-> n, side |-> side, ai |-> ai, prompt |-> prompt,
     adapter |-> r.adapter, net |-> r.net, vendor |-> v.kind, text |-> r.text]

\* a run that looks at rounds first and returns an empty transcript
RunDebate_checked ==
    /\ pc = "idle"
    /\ pc' = IF rounds < 1 THEN "done" ELSE "pro"
    /\ debate_log' = <<>>
    /\ instruction_suffix' = InstructionSuffix(mode)
    /\ round_num' = 1
    /\ pro_prompt' = OpeningPrompt(Topic, "PRO", WordLimit, InstructionSuffix(mode))
    /\ con_prompt' = OpeningPrompt(Topic, "CON", WordLimit, InstructionSuffix(mode))
    /\ UNCHANGED <<env, anthropic_client, rounds, mode, ai_pro, ai_con,
                   pro_response, con_response, calls, routerVars, judgeVars, appVars>>

\* lines 275-290: the instruction and the two opening prompts
RunDebate ==
    /\ pc = "idle"
    /\ pc' = "pro"
    /\ debate_log' = <<>>
    /\ instruction_suffix' = InstructionSuffix(mode)
    /\ round_num' = 1
    /\ pro_prompt' = OpeningPrompt(Topic, "PRO", WordLimit, InstructionSuffix(mode))
    /\ con_prompt' = OpeningPrompt(Topic, "CON", WordLimit, InstructionSuffix(mode))
    /\ UNCHANGED <<env, anthropic_client, rounds, mode, ai_pro, ai_con,
                   pro_response, con_response, calls, routerVars, judgeVars, appVars>>

\* a failed call attempted a second time
CallPro_retry ==
    /\ pc = "pro"
    /\ \E v \in VendorOutcomes(env, anthropic_client, ai_pro, DebateTexts),
          w \in VendorOutcomes(env, anthropic_client, ai_pro, DebateTexts) :
          LET r == get_response(env, anthropic_client, ai_pro, pro_prompt, WordLimit, v)
              again == get_response(env, anthropic_client, ai_pro, pro_prompt, WordLimit, w)
              first == Call(round_num, "PRO", ai_pro, pro_prompt, v, r)
          IN  IF Contains(r.text, ERR)
              THEN /\ pro_response' = again.text
                   /\ calls' = calls \o <<first, Call(round_num, "PRO", ai_pro,
                                                      pro_prompt, w, again)>>
              ELSE /\ pro_response' = r.text
                   /\ calls' = Append(calls, first)
    /\ pc' = "con"
    /\ UNCHANGED <<env, anthropic_client, rounds, mode, ai_pro, ai_con,
                   instruction_suffix, round_num, pro_prompt, con_prompt,
                   con_response, debate_log, routerVars, judgeVars, appVars>>

\* lines 292, 321
CallPro ==
    /\ pc = "pro"
    /\ \E v \in VendorOutcomes(env, anthropic_client, ai_pro, DebateTexts) :
          LET r == get_response(env, anthropic_client, ai_pro, pro_prompt, WordLimit, v)
          IN  /\ pro_response' = r.text
              /\ calls' = Append(calls, Call(round_num, "PRO", ai_pro, pro_prompt, v, r))
    /\ pc' = "con"
    /\ UNCHANGED <<env, anthropic_client, rounds, mode, ai_pro, ai_con,
                   instruction_suffix, round_num, pro_prompt, con_prompt,
                   con_response, debate_log, routerVars, judgeVars, appVars>>

\* CON's rebuttal prompt built after PRO has answered in the same round
CallCon_fresh ==
    /\ pc = "con"
    /\ \E v \in VendorOutcomes(env, anthropic_client, ai_con, DebateTexts) :
          LET prompt == IF round_num = 1 THEN con_prompt
                        ELSE RebuttalPrompt(round_num, Topic, "CON", pro_response,
                                            WordLimit, instruction_suffix)
              r == get_response(env, anthropic_client, ai_con, prompt, WordLimit, v)
          IN  /\ con_response' = r.text
              /\ calls' = Append(calls, Call(round_num, "CON", ai_con, prompt, v, r))
    /\ pc' = "append"
    /\ UNCHANGED <<env, anthropic_client, rounds, mode, ai_pro, ai_con,
                   instruction_suffix, round_num, pro_prompt, con_prompt,
                   pro_response, debate_log, routerVars, judgeVars, appVars>>

\* lines 293, 322
CallCon ==
    /\ pc = "con"
    /\ \E v \in VendorOutcomes(env, anthropic_client, ai_con, DebateTexts) :
          LET r == get_response(env, anthropic_client, ai_con, con_prompt, WordLimit, v)
          IN  /\ con_response' = r.text
              /\ calls' = Append(calls, Call(round_num, "CON", ai_con, con_prompt, v, r))
    /\ pc' = "append"
    /\ UNCHANGED <<env, anthropic_client, rounds, mode, ai_pro, ai_con,
                   instruction_suffix, round_num, pro_prompt, con_prompt,
                   pro_response, debate_log, routerVars, judgeVars, appVars>>

\* lines 295-301 and 324-330 (the append), then the head of the loop
\* (range(2, rounds + 1)): the next round's two prompts, or the return.
NextRound(n) == n + 1

\* range(2, rounds) instead of range(2, rounds + 1)
LoopContinues_short(n, r) == NextRound(n) < r

LoopContinues(n, r) == NextRound(n) <= r

AppendTurn ==
    /\ pc = "append"
    /\ debate_log' = Append(debate_log,
           Turn(round_num, ai_pro, pro_response, ai_con, con_response))
    /\ IF LoopContinues(round_num, rounds)
       THEN /\ round_num' = NextRound(round_num)
            /\ pro_prompt' = RebuttalPrompt(NextRound(round_num), Topic, "PRO",
                                 con_response, WordLimit, instruction_suffix)
            /\ con_prompt' = RebuttalPrompt(NextRound(round_num), Topic, "CON",
                                 pro_response, WordLimit, instruction_suffix)
            /\ pc' = "pro"
       ELSE /\ pc' = "done"
            /\ UNCHANGED <<round_num, pro_prompt, con_prompt>>
    /\ UNCHANGED <<env, anthropic_client, rounds, mode, ai_pro, ai_con,
                   instruction_suffix, pro_response, con_response, calls,
                   routerVars, judgeVars, appVars>>

----------------------------------------------------------------------------
(* Initial states *)

Modes == {"Adversarial", "Truth-Seeking", "truth-seeking", "Socratic"}

NoResult == Result(<<>>, "pending", FALSE)

\* DebateEngine.__init__: the Anthropic client is built from the key; the
\* constructor succeeds with a key, and without one it either raises (the
\* client is None) or defers the failure to the first call.
InitEngine ==
    /\ env \in SUBSET KeyNames
    /\ anthropic_client \in BOOLEAN
    /\ Getenv(env, "ANTHROPIC_API_KEY") => anthropic_client

DebateIdle ==
    /\ pc = "idle"
    /\ instruction_suffix = ""
    /\ round_num = 0
    /\ pro_prompt = <<>> /\ con_prompt = <<>>
    /\ pro_response = <<>> /\ con_response = <<>>
    /\ debate_log = <<>>
    /\ calls = <<>>

RouterIdle == gr_ai = "" /\ gr_result = NoResult /\ gr_vendor = "none"

JudgeIdle ==
    /\ judge_ai = "" /\ judge_pc = "idle"
    /\ judge_response = <<>> /\ judging = [kind |-> "none"]

\* the application before "Run Debate" is pressed
AppIdle ==
    /\ app_pc = "idle"
    /\ missing_keys = {} /\ has_errors = FALSE
    /\ summary = [kind |-> "none"] /\ audio_data = [kind |-> "none"]
    /\ screen = <<>> /\ stages = <<>> /\ tts = <<>>

DebateEnvs == {KeyNames, KeyNames \ {"GOOGLE_API_KEY"}, {}}

ProIds == {"claude-sonnet-4-20250514", "parrot-1"}
ConIds == {"gemini-2.0-flash"}

Init ==
    /\ InitEngine
    /\ env \in DebateEnvs
    /\ rounds \in -1..MaxRounds
    /\ mode \in Modes
    /\ ai_pro \in ProIds
    /\ ai_con \in ConIds
    /\ DebateIdle /\ RouterIdle /\ JudgeIdle
    /\ enable_judging = FALSE /\ enable_audio = FALSE /\ AppIdle

Next == RunDebate \/ CallPro \/ CallCon \/ AppendTurn

Spec == Init /\ [][Next]_vars

----------------------------------------------------------------------------
(* get_response on its own: one call, any identifier *)

RouterIds ==
    {"claude-sonnet-4-20250514", "gpt-4", "gpt-3.5-turbo", "gemini-2.0-flash",
     "deepseek-chat", "mistral-large-latest", "cohere-command",
     "command-r-plus-08-2024", "groq-mixtral", "llama-3.3-70b-versatile",
     "ai21-j2", "jamba-mini",
     "parrot-1", "", "Claude-3", "xgpt-4", "gp", "my-llama", "jamb"}

RouterEnvs == {KeyNames \ m : m \in {x \in SUBSET KeyNames : Cardinality(x) <= 1}}
              \cup {{}}

RouterPrompt == <<"Say something.">>

InitRouter ==
    /\ InitEngine
    /\ env \in RouterEnvs
    /\ gr_ai \in RouterIds
    /\ gr_result = NoResult /\ gr_vendor = "none"
    /\ rounds = 0 /\ mode = "Adversarial" /\ ai_pro = "" /\ ai_con = ""
    /\ DebateIdle /\ JudgeIdle
    /\ enable_judging = FALSE /\ enable_audio = FALSE /\ AppIdle

GetResponseCall ==
    /\ gr_result = NoResult
    /\ \E v \in VendorOutcomes(env, anthropic_client, gr_ai, DebateTexts) :
          /\ gr_result' = get_response(env, anthropic_client, gr_ai,
                                       RouterPrompt, WordLimit, v)
          /\ gr_vendor' = v.kind
    /\ UNCHANGED <<env, anthropic_client, gr_ai, debateVars, judgeVars, appVars>>

NextRouter == GetResponseCall

SpecRouter == InitRouter /\ [][NextRouter]_vars

----------------------------------------------------------------------------
(* Claims about run_debate (specification Spec) *)

Front(q) == SubSeq(q, 1, Len(q) - 1)
Last(q) == q[Len(q)]

\* The opponent text a rebuttal prompt carries: what stands between the
\* six leading pieces of the template and its four closing pieces.
QuotedPart(prompt) == SubSeq(prompt, 7, Len(prompt) - 4)

\* A call failed when the vendor did not answer it: the adapter returned
\* before calling the vendor, or the call raised.
Failed(c) == ~(c.net /\ c.vendor = "ok")

IsTagged(text) == Len(text) > 0 /\ text[1] = ERR

\* The call of a side in a round: PRO's is call 2k-1, CON's call 2k.
CallIndex(k, side) == IF side = "PRO" THEN 2 * k - 1 ELSE 2 * k

\* C1: for positive rounds the returned transcript holds exactly rounds
\* Turns, Turn i carrying round i, in the order the rounds were generated
\* (Turn i holds the texts of the 2i-1st and 2i-th call); while the run is
\* under way the log is a prefix of that.
C1_TranscriptRounds ==
    /\ \A i \in 1..Len(debate_log) :
          /\ debate_log[i].round = i
          /\ 2 * i <= Len(calls)
          /\ calls[2 * i - 1].round = i /\ calls[2 * i].round = i
          /\ debate_log[i].pro_response = calls[2 * i - 1].text
          /\ debate_log[i].con_response = calls[2 * i].text
    /\ (pc = "done" /\ rounds >= 1) => Len(debate_log) = rounds

C1_Witness ==
    pc = "done" /\ rounds = MaxRounds /\ Len(debate_log) = MaxRounds
    /\ debate_log[MaxRounds].round = MaxRounds

\* C2: the prompts of round 1 carry no opponent text (no quoting piece and
\* no token of any answer given so far); for k > 1 the PRO prompt carries
\* exactly the CON text of Turn k-1 and the CON prompt exactly the PRO text
\* of Turn k-1.
AnswerTokens ==
    UNION {{calls[j].text[n] : n \in 1..Len(calls[j].text)} : j \in 1..Len(calls)}

C2_OpponentContext ==
    \A i \in 1..Len(calls) :
        LET c == calls[i] IN
        IF c.round = 1
        THEN /\ ~Contains(c.prompt, "Your opponent's last argument:")
             /\ \A n \in 1..Len(c.prompt) : c.prompt[n] \notin AnswerTokens
        ELSE /\ c.round - 1 \in 1..Len(debate_log)
             /\ QuotedPart(c.prompt) =
                  (IF c.side = "PRO"
                   THEN debate_log[c.round - 1].con_response
                   ELSE debate_log[c.round - 1].pro_response)

\* a round-3 PRO prompt quoting a CON text of round 2 that differs from the
\* CON text of round 1
C2_Witness ==
    /\ Len(calls) >= 5
    /\ calls[5].round = 3 /\ calls[5].side = "PRO"
    /\ debate_log[1].con_response # debate_log[2].con_response
    /\ QuotedPart(calls[5].prompt) = debate_log[2].con_response

\* C3: every prompt issued ends with the instruction of the run's mode (the
\* truth-seeking sentence for "Truth-Seeking", the adversarial one
\* otherwise), all prompts of a run end with the same instruction, and what
\* precedes the instruction is the prompt an Adversarial and a Truth-Seeking
\* run alike would build for that round, side and opponent text: the two
\* differ in the instruction alone.
TruthInstruction == "Your goal is to find the truth together, not to win. Be willing to concede points and adjust your position based on strong arguments."
AdversarialInstruction == "Present the strongest possible case for your position."

PromptInMode(c, m) ==
    IF c.round = 1
    THEN OpeningPrompt(Topic, c.side, WordLimit, InstructionSuffix(m))
    ELSE RebuttalPrompt(c.round, Topic, c.side, QuotedPart(c.prompt),
                        WordLimit, InstructionSuffix(m))

C3_ModeInstruction ==
    \A i \in 1..Len(calls) :
        LET c == calls[i] IN
        /\ Len(c.prompt) > 0
        /\ Last(c.prompt) = (IF mode = "Truth-Seeking" THEN TruthInstruction
                             ELSE AdversarialInstruction)
        /\ Last(c.prompt) = Last(calls[1].prompt)
        /\ Front(c.prompt) = Front(PromptInMode(c, "Adversarial"))
        /\ Front(c.prompt) = Front(PromptInMode(c, "Truth-Seeking"))
        /\ Last(PromptInMode(c, "Adversarial")) = AdversarialInstruction
        /\ Last(PromptInMode(c, "Truth-Seeking")) = TruthInstruction

C3_Witness ==
    /\ mode = "Truth-Seeking" /\ pc = "done" /\ Len(calls) = 2 * MaxRounds
    /\ Last(calls[2 * MaxRounds].prompt) = TruthInstruction
    /\ calls[2 * MaxRounds].side = "CON"

\* C4: a failed call does not end the run.  Its side's text in the Turn of
\* its round is the tagged error string the call returned, the other call
\* of that round and both calls of every later round are still made, and a
\* returned transcript has rounds Turns (for positive rounds).
C4_FailSoft ==
    /\ \A i \in 1..Len(calls) :
          Failed(calls[i]) =>
              /\ IsTagged(calls[i].text)
              /\ calls[i].round <= Len(debate_log) =>
                    (IF calls[i].side = "PRO"
                     THEN debate_log[calls[i].round].pro_response
                     ELSE debate_log[calls[i].round].con_response) = calls[i].text
    /\ (pc = "done" /\ rounds >= 1) =>
          /\ Len(debate_log) = rounds
          /\ Len(calls) = 2 * rounds
          /\ \A k \in 1..rounds :
                /\ calls[CallIndex(k, "PRO")].round = k
                /\ calls[CallIndex(k, "PRO")].side = "PRO"
                /\ calls[CallIndex(k, "CON")].round = k
                /\ calls[CallIndex(k, "CON")].side = "CON"
    /\ pc \in {"idle", "pro", "con", "append", "done"}

\* PRO's vendor raises in round 1; the run returns MaxRounds Turns, the
\* last one holding two genuine answers
C4_Witness ==
    /\ pc = "done" /\ rounds = MaxRounds /\ Len(debate_log) = MaxRounds
    /\ calls[1].vendor = "raise" /\ calls[1].net
    /\ IsTagged(debate_log[1].pro_response)
    /\ ~Failed(calls[2])
    /\ ~Failed(calls[2 * MaxRounds - 1]) /\ ~Failed(calls[2 * MaxRounds])

\* C5: when a side's call of round k failed, the opponent's prompt of round
\* k+1 quotes that failure text as it stands in Turn k, and every Turn
\* (before, at and after k) holds exactly what its own two calls returned.
Opponent(side) == IF side = "PRO" THEN "CON" ELSE "PRO"

C5_FailureQuoted ==
    \A i \in 1..Len(calls) :
        LET c == calls[i] IN
        /\ (Failed(c) /\ CallIndex(c.round + 1, Opponent(c.side)) <= Len(calls)) =>
              LET d == calls[CallIndex(c.round + 1, Opponent(c.side))] IN
              /\ d.round = c.round + 1 /\ d.side = Opponent(c.side)
              /\ QuotedPart(d.prompt) = c.text
              /\ IsTagged(QuotedPart(d.prompt))
        /\ c.round <= Len(debate_log) =>
              c.text = (IF c.side = "PRO"
                        THEN debate_log[c.round].pro_response
                        ELSE debate_log[c.round].con_response)

\* scenario B: CON fails in round 2 only; round 3's PRO prompt quotes it
C5_Witness ==
    /\ pc = "done" /\ rounds = 3
    /\ \A i \in 1..6 : Failed(calls[i]) <=> i = 4
    /\ IsTagged(debate_log[2].con_response)
    /\ QuotedPart(calls[5].prompt) = debate_log[2].con_response
    /\ ~IsTagged(debate_log[1].con_response)
    /\ ~IsTagged(debate_log[3].con_response)

\* The prompt of a round and side as the outputs of the round before
\* determine it.
PromptFromPreviousRound(k, side) ==
    IF k = 1
    THEN OpeningPrompt(Topic, side, WordLimit, InstructionSuffix(mode))
    ELSE RebuttalPrompt(k, Topic, side,
                        calls[CallIndex(k - 1, Opponent(side))].text,
                        WordLimit, InstructionSuffix(mode))

\* C19: the calls of a run alternate PRO, CON, round by round, so PRO's call
\* of a round has returned when CON's starts; every prompt issued is the one
\* the outputs of the round before determine; and both prompts of a round
\* are already fixed when the round's first call is made: while PRO's call
\* is pending and after it has returned, CON's prompt is the same text, built
\* from PRO's output of the round before.
C19_RoundIndependence ==
    /\ \A i \in 1..Len(calls) :
          /\ calls[i].side = (IF i % 2 = 1 THEN "PRO" ELSE "CON")
          /\ calls[i].round = (i + 1) \div 2
          /\ calls[i].prompt = PromptFromPreviousRound(calls[i].round, calls[i].side)
    /\ pc = "pro" =>
          /\ Len(calls) = 2 * (round_num - 1)
          /\ pro_prompt = PromptFromPreviousRound(round_num, "PRO")
          /\ con_prompt = PromptFromPreviousRound(round_num, "CON")
    /\ pc = "con" =>
          /\ Len(calls) = 2 * round_num - 1
          /\ calls[Len(calls)].text = pro_response
          /\ con_prompt = PromptFromPreviousRound(round_num, "CON")

\* PRO's answer of round 2 differs from its answer of round 1, and CON's
\* prompt of round 2 quotes the answer of round 1
C19_Witness ==
    /\ Len(calls) >= 4
    /\ calls[3].text # calls[1].text
    /\ QuotedPart(calls[4].prompt) = calls[1].text
    /\ QuotedPart(calls[4].prompt) # calls[3].text

\* C20: get_response is invoked once per side per round, PRO then CON: never
\* more than 2*rounds times (twice when rounds < 1), exactly 2*rounds times
\* in a finished run of positive rounds; a failed invocation is followed by
\* the other side's turn, not by the same turn again; an invocation that was
\* routed to no adapter, or whose adapter found its credential missing, made
\* no vendor call, and every other made the one call whose outcome (an
\* answer, or an exception turned into the tagged error) it reports.
C20_OneAttemptPerTurn ==
    /\ Len(calls) <= 2 * (IF rounds >= 1 THEN rounds ELSE 1)
    /\ (pc = "done" /\ rounds >= 1) => Len(calls) = 2 * rounds
    /\ \A i \in 1..Len(calls) :
          /\ <<calls[i].round, calls[i].side>> =
                <<(i + 1) \div 2, IF i % 2 = 1 THEN "PRO" ELSE "CON">>
          /\ (Failed(calls[i]) /\ i < Len(calls)) =>
                <<calls[i + 1].round, calls[i + 1].side>> # <<calls[i].round, calls[i].side>>
          /\ ~calls[i].net =>
                \/ calls[i].adapter = "none"
                \/ calls[i].adapter = "claude" /\ ~anthropic_client
                \/ ~Getenv(env, CredentialOf(calls[i].adapter))
          /\ calls[i].net =>
                /\ calls[i].vendor \in {"ok", "raise"}
                /\ calls[i].vendor = "raise" => IsTagged(calls[i].text)

\* PRO's call of round 2 failed and the run went on to CON's
C20_Witness ==
    /\ pc = "done" /\ rounds = MaxRounds /\ Len(calls) = 2 * MaxRounds
    /\ Failed(calls[3]) /\ calls[3].net
    /\ calls[4].side = "CON" /\ calls[4].round = 2

----------------------------------------------------------------------------
(* Claims about get_response (specification SpecRouter) *)

\* The routing table: prefix, provider.
RoutingTable ==
    {<<"claude", "claude">>, <<"gpt", "openai">>, <<"gemini", "gemini">>,
     <<"deepseek", "deepseek">>, <<"mistral", "mistral">>,
     <<"cohere", "cohere">>, <<"command", "cohere">>,
     <<"groq", "groq">>, <<"llama", "groq">>,
     <<"ai21", "ai21">>, <<"jamba", "ai21">>}

HasPrefix(id, pre) == \E n \in 0..Len(id) : SubSeq(id, 1, n) = pre

Answered == gr_result # NoResult

\* C6: an identifier that starts with a prefix of the table is handed to
\* that prefix's adapter, whatever the environment and the vendor do; an
\* identifier that starts with none gets the unsupported-model error string,
\* with no adapter invoked and no vendor call made.
C6_Router ==
    Answered =>
        /\ \A row \in RoutingTable :
              HasPrefix(gr_ai, row[1]) => gr_result.adapter = row[2]
        /\ (\A row \in RoutingTable : ~HasPrefix(gr_ai, row[1])) =>
              /\ gr_result.adapter = "none"
              /\ ~gr_result.net
              /\ gr_result.text =
                    <<ERR, "AI system '" \o gr_ai \o "' not supported]">>

C6_Witness ==
    /\ Answered /\ gr_ai = "xgpt-4" /\ gr_result.adapter = "none"

C6_WitnessRouted ==
    /\ Answered /\ gr_ai = "llama-3.3-70b-versatile"
    /\ gr_result.adapter = "groq" /\ gr_result.net /\ gr_vendor = "ok"

\* C22: round 1 is performed whatever rounds is: every returned transcript
\* starts with the Turn of the two opening calls and has max(1, rounds)
\* Turns, so it is never empty; for rounds <= 0 the run makes exactly the
\* two opening calls and returns exactly that one Turn.
C22_RoundOneAlways ==
    pc = "done" =>
        /\ Len(debate_log) = (IF rounds > 1 THEN rounds ELSE 1)
        /\ Len(calls) >= 2
        /\ calls[1].prompt =
               OpeningPrompt(Topic, "PRO", WordLimit, InstructionSuffix(mode))
        /\ calls[2].prompt =
               OpeningPrompt(Topic, "CON", WordLimit, InstructionSuffix(mode))
        /\ debate_log[1] = Turn(1, ai_pro, calls[1].text, ai_con, calls[2].text)
        /\ rounds <= 0 => Len(calls) = 2 /\ Len(debate_log) = 1

C22_Witness ==
    /\ pc = "done" /\ rounds <= 0
    /\ Len(calls) = 2
    /\ debate_log = <<Turn(1, ai_pro, calls[1].text, ai_con, calls[2].text)>>

C22_WitnessNegative ==
    pc = "done" /\ rounds < 0 /\ Len(debate_log) = 1

\* The prompt an Adversarial run issues for a round and side, given the
\* answers of the round before.
AdversarialPrompt(k, side) ==
    IF k = 1
    THEN OpeningPrompt(Topic, side, WordLimit, AdversarialInstruction)
    ELSE RebuttalPrompt(k, Topic, side,
                        calls[CallIndex(k - 1, Opponent(side))].text,
                        WordLimit, AdversarialInstruction)

\* C23: the truth-seeking instruction is selected only when mode is exactly
\* "Truth-Seeking"; for every other mode value (differently cased or
\* unknown) each prompt issued is exactly the prompt of an Adversarial run
\* on the same answers, and the run is not rejected: it makes its calls and
\* returns the full transcript.
C23_ModeFallback ==
    /\ pc # "idle" =>
          (instruction_suffix = TruthInstruction <=> mode = "Truth-Seeking")
    /\ \A i \in 1..Len(calls) :
          /\ Last(calls[i].prompt) = TruthInstruction <=> mode = "Truth-Seeking"
          /\ mode # "Truth-Seeking" =>
                calls[i].prompt = AdversarialPrompt(calls[i].round, calls[i].side)
    /\ (pc = "done" /\ mode # "Truth-Seeking") =>
          /\ Len(debate_log) = (IF rounds > 1 THEN rounds ELSE 1)
          /\ Len(calls) = 2 * Len(debate_log)

C23_Witness ==
    /\ mode = "truth-seeking" /\ pc = "done" /\ rounds = MaxRounds
    /\ Len(calls) = 2 * MaxRounds
    /\ calls[2 * MaxRounds].prompt = AdversarialPrompt(MaxRounds, "CON")

C23_WitnessUnknown ==
    /\ mode = "Socratic" /\ pc = "done" /\ Len(calls) >= 4
    /\ calls[3].prompt = AdversarialPrompt(2, "PRO")

\* the identifier was routed to a provider whose credential is absent
CredentialAbsent ==
    /\ gr_result.adapter \notin {"none", "pending"}
    /\ ~Getenv(env, CredentialOf(gr_result.adapter))

C21_KeyCheckedAdapters ==
    (Answered /\ CredentialAbsent) =>
        /\ IsTagged(gr_result.text)
        /\ gr_result.net =>
              \/ gr_result.adapter = "openai"
              \/ gr_result.adapter = "claude" /\ anthropic_client
        /\ ~gr_result.net =>
              gr_result.text \in
                  {<<ERR, CredentialOf(gr_result.adapter) \o " not found in environment]">>,
                   <<ERR, "Anthropic client not initialized. Check API key.]">>}

----------------------------------------------------------------------------
(* JSON.  A judge response is a token sequence: "{" and "}" are the brace  *)
(* characters (no other token holds one), a key token is a member's name   *)
(* with its colon, a number or string token is a JSON literal, every other *)
(* token is prose.  json.loads yields Python values: numbers, strings and  *)
(* dicts (functions from keys to values).                                  *)

LB == "{"
RB == "}"

CategorySeq == <<"argument_strength", "evidence_quality",
                 "counterpoint_effectiveness", "good_faith",
                 "factual_accuracy", "rhetorical_skill">>
Categories == {CategorySeq[i] : i \in 1..Len(CategorySeq)}

JsonKeys == Categories \cup {"pro_scores", "con_scores", "commentary", "verdict", "total"}
JsonStrings == {"PRO argued with more evidence.", "PRO made the stronger case.", "high"}

KeyTok(k) == "\"" \o k \o "\":"
NumTok(n) == ToString(n)
StrTok(x) == "\"" \o x \o "\""

IsKey(tok) == \E k \in JsonKeys : tok = KeyTok(k)
IsNum(tok) == \E n \in 0..MaxScore : tok = NumTok(n)
IsStr(tok) == \E x \in JsonStrings : tok = StrTok(x)
KeyOf(tok) == CHOOSE k \in JsonKeys : tok = KeyTok(k)
NumOf(tok) == CHOOSE n \in 0..MaxScore : tok = NumTok(n)
StrOf(tok) == CHOOSE x \in JsonStrings : tok = StrTok(x)

Null == [k |-> "null"]
Num(n) == [k |-> "num", n |-> n]
Str(x) == [k |-> "str", s |-> x]
Obj(m) == [k |-> "obj", m |-> m]

EmptyDict == [key \in {} |-> Null]
\* d[key] = v; a repeated key keeps the last value
Put(d, key, v) == [y \in DOMAIN d \cup {key} |-> IF y = key THEN v ELSE d[y]]

NoParse == [ok |-> FALSE, val |-> Null, next |-> 0]
Parsed(v, n) == [ok |-> TRUE, val |-> v, next |-> n]

RECURSIVE ParseValue(_, _), ParseMembers(_, _, _)

\* one JSON value starting at token i
ParseValue(t, i) ==
    IF i > Len(t) THEN NoParse
    ELSE IF t[i] = LB THEN ParseMembers(t, i + 1, EmptyDict)
    ELSE IF IsNum(t[i]) THEN Parsed(Num(NumOf(t[i])), i + 1)
    ELSE IF IsStr(t[i]) THEN Parsed(Str(StrOf(t[i])), i + 1)
    ELSE NoParse

\* the members of an object up to its closing brace
ParseMembers(t, i, d) ==
    IF i > Len(t) THEN NoParse
    ELSE IF t[i] = RB THEN Parsed(Obj(d), i + 1)
    ELSE IF IsKey(t[i])
    THEN LET r == ParseValue(t, i + 1)
         IN  IF r.ok THEN ParseMembers(t, r.next, Put(d, KeyOf(t[i]), r.val))
             ELSE NoParse
    ELSE NoParse

\* Python: a statement returns a value or raises an exception of a class
Ret(v) == [kind |-> "return", val |-> v]
Exc(c, msg) == [kind |-> "raise", exc |-> c, msg |-> msg]
Val(r) == IF r.kind = "return" THEN r.val ELSE Null

\* json.loads: one value and nothing after it
json_loads(t) ==
    LET r == ParseValue(t, 1)
    IN  IF r.ok /\ r.next = Len(t) + 1 THEN Ret(r.val)
        ELSE Exc("JSONDecodeError", "Expecting value")

\* re.search(r'\{.*\}', s, re.DOTALL): leftmost "{", then greedily to the
\* last "}" after it
RegexBraces(t) ==
    IF \E i, j \in 1..Len(t) : i < j /\ t[i] = LB /\ t[j] = RB
    THEN LET i == CHOOSE a \in 1..Len(t) :
                     t[a] = LB /\ \A b \in 1..(a - 1) : t[b] # LB
             j == CHOOSE a \in 1..Len(t) :
                     t[a] = RB /\ \A b \in (a + 1)..Len(t) : t[b] # RB
         IN  [found |-> TRUE, group |-> SubSeq(t, i, j)]
    ELSE [found |-> FALSE, group |-> <<>>]

\* lines 471-477
ExtractJson(t) ==
    LET json_match == RegexBraces(t)
    IN  IF json_match.found THEN json_loads(json_match.group)
        ELSE json_loads(t)

\* obj[key]
GetItem(obj, key) ==
    IF obj.k # "obj" THEN Exc("TypeError", "not subscriptable")
    ELSE IF key \notin DOMAIN obj.m THEN Exc("KeyError", "'" \o key \o "'")
    ELSE Ret(obj.m[key])

RECURSIVE SumOver(_, _)
SumOver(d, keys) ==
    IF keys = {} THEN 0
    ELSE LET key == CHOOSE x \in keys : TRUE
         IN  d[key].n + SumOver(d, keys \ {key})

\* sum(obj.values())
SumValues(obj) ==
    IF obj.k # "obj" THEN Exc("AttributeError", "no attribute 'values'")
    ELSE IF \E key \in DOMAIN obj.m : obj.m[key].k # "num"
    THEN Exc("TypeError", "unsupported operand type(s) for +")
    ELSE Ret(SumOver(obj.m, DOMAIN obj.m))

----------------------------------------------------------------------------
(* judge_debate *)

RECURSIVE Flatten(_)
Flatten(ss) == IF Len(ss) = 0 THEN <<>> ELSE Head(ss) \o Flatten(Tail(ss))

\* lines 405-415
FullTranscript(log, pa, ca) ==
    Flatten([i \in 1..Len(log) |->
        <<"=== ROUND " \o ToString(log[i].round) \o " ===", "PRO (" \o pa \o "):">>
        \o log[i].pro_response
        \o <<"", "CON (" \o ca \o "):">>
        \o log[i].con_response
        \o <<"">>])

\* lines 418-460
JudgePrompt(topic, log, m, pa, ca) ==
    <<"You are serving as a judge for a debate.",
      "DEBATE TOPIC: " \o topic, "DEBATE MODE: " \o m,
      "PRO DEBATER: " \o pa, "CON DEBATER: " \o ca,
      "FULL DEBATE TRANSCRIPT:">>
    \o FullTranscript(log, pa, ca)
    \o <<"Please score both debaters on the following categories using a 0-10 scale",
         "IMPORTANT: Provide your response EXACTLY in this JSON format:",
         "Be objective and fair in your evaluation.">>

\* What judge_debate hands back: a dict or a str.
PyDict(d) == [kind |-> "dict", val |-> d, text |-> <<>>]
PyStr(t) == [kind |-> "str", val |-> Null, text |-> t]

\* lines 484-508: one side's entry of "scores"
ScoreSheet(scores, total) ==
    [c \in Categories \cup {"total"} |->
        IF c = "total" THEN Num(total) ELSE scores.m[c]]

\* lines 479-510: the statements after the parse, in evaluation order; the
\* first that raises ends the body.
JudgeSteps(judge_data) ==
    LET pro == GetItem(judge_data, "pro_scores")
        con == GetItem(judge_data, "con_scores")
    IN  <<pro, SumValues(Val(pro)), con, SumValues(Val(con))>>
        \o [i \in 1..Len(CategorySeq) |-> GetItem(Val(pro), CategorySeq[i])]
        \o [i \in 1..Len(CategorySeq) |-> GetItem(Val(con), CategorySeq[i])]
        \o <<GetItem(judge_data, "commentary"), GetItem(judge_data, "verdict")>>

FormatResult(ja, judge_data) ==
    LET steps == JudgeSteps(judge_data)
    IN  IF \E i \in 1..Len(steps) : steps[i].kind = "raise"
        THEN steps[CHOOSE i \in 1..Len(steps) :
                     /\ steps[i].kind = "raise"
                     /\ \A j \in 1..(i - 1) : steps[j].kind # "raise"]
        ELSE Ret(PyDict([judge_ai |-> ja,
                  scores |-> [pro |-> ScoreSheet(steps[1].val, steps[2].val),
                              con |-> ScoreSheet(steps[3].val, steps[4].val)],
                  commentary |-> steps[Len(steps) - 1].val,
                  verdict |-> steps[Len(steps)].val]))

\* lines 465-510: the body of the try once the judge has answered
JudgeBody(ja, response) ==
    IF Contains(response, ERR)
    THEN Ret(PyStr(<<ERR, "Judge API call failed -">> \o response \o <<"]">>))
    ELSE LET judge_data == ExtractJson(response)
         IN  IF judge_data.kind = "raise" THEN judge_data
             ELSE FormatResult(ja, judge_data.val)

Slice(t, n) == SubSeq(t, 1, Min(n, Len(t)))

\* an exception no handler caught leaves judge_debate
Escaped(r) == [kind |-> "raise", val |-> Null, text |-> <<r.exc, r.msg>>]

\* only the two named handlers, no `except Exception`
Handlers_named(r, response) ==
    IF r.kind = "return" THEN r.val
    ELSE IF r.exc = "JSONDecodeError"
    THEN PyStr(<<ERR, "Could not parse judge response as JSON -", r.msg,
                    ". Response was:">> \o Slice(response, SnippetLen) \o <<"...]">>)
    ELSE IF r.exc = "KeyError"
    THEN PyStr(<<ERR, "Missing required field in judge response -", r.msg, "]">>)
    ELSE Escaped(r)

\* lines 512-517
Handlers(r, response) ==
    IF r.kind = "return" THEN r.val
    ELSE IF r.exc = "JSONDecodeError"
    THEN PyStr(<<ERR, "Could not parse judge response as JSON -", r.msg,
                    ". Response was:">> \o Slice(response, SnippetLen) \o <<"...]">>)
    ELSE IF r.exc = "KeyError"
    THEN PyStr(<<ERR, "Missing required field in judge response -", r.msg, "]">>)
    ELSE PyStr(<<ERR, "Judge evaluation failed -", r.msg, "]">>)

----------------------------------------------------------------------------
(* What a judge model may answer: the requested object, or one that lacks  *)
(* a category or a field, carries an extra entry or a score that is not a  *)
(* number; alone or between leading and trailing prose, with or without    *)
(* brace characters in the prose; or no object at all.                     *)

Remove(q, j) == SubSeq(q, 1, j - 1) \o SubSeq(q, j + 1, Len(q))

\* <<key, value tokens>> pairs written out as a JSON object
Serialize(pairs) ==
    <<LB>> \o Flatten([i \in 1..Len(pairs) |-> <<KeyTok(pairs[i][1])>> \o pairs[i][2]])
           \o <<RB>>

SixScores(x) ==
    [i \in 1..Len(CategorySeq) |->
        <<CategorySeq[i], <<NumTok((x + i) % (MaxScore + 1))>>>>]

ScorePairs(x) ==
    {SixScores(x)}
    \cup {Remove(SixScores(x), j) : j \in {1, Len(CategorySeq)}}
    \cup {SixScores(x) \o <<<<"total", <<NumTok(n)>>>>>> : n \in 0..MaxScore}
    \cup {[SixScores(x) EXCEPT ![2] = <<CategorySeq[2], <<StrTok("high")>>>>]}
    \cup {Remove([SixScores(x) EXCEPT ![2] = <<CategorySeq[2], <<StrTok("high")>>>>],
                 Len(CategorySeq))}

ScoreMapTexts ==
    {Serialize(q) : q \in UNION {ScorePairs(x) : x \in 0..MaxScore}}
    \cup {<<NumTok(0)>>}

GoodScores(x) == Serialize(SixScores(x))

JudgeFields(p, c) ==
    << <<"pro_scores", p>>, <<"con_scores", c>>,
       <<"commentary", <<StrTok("PRO argued with more evidence.")>>>>,
       <<"verdict", <<StrTok("PRO made the stronger case.")>>>> >>

JudgeObjects ==
    {Serialize(JudgeFields(p, GoodScores(1))) : p \in ScoreMapTexts}
    \cup {Serialize(JudgeFields(GoodScores(0), c)) : c \in ScoreMapTexts}
    \cup {Serialize(Remove(JudgeFields(GoodScores(0), GoodScores(1)), j)) : j \in 1..4}
    \cup {<<LB, RB>>}

Leads == {<<>>, <<"Here is my evaluation:">>, <<"Scores", LB, "0-10", RB, "follow:">>}
Trails == {<<>>, <<"Hope this helps.">>, <<"Note:", LB, "scores are 0-10", RB>>,
           <<"Done :-", RB>>, <<"as in", ERR, "x]">>}

LongText == [i \in 1..LongProse |-> "blah"]

JudgeTexts ==
    {l \o b \o t : l \in Leads, b \in JudgeObjects, t \in Trails}
    \cup {<<>>, <<"I cannot judge this debate.">>, <<NumTok(1)>>, <<StrTok("high")>>,
          <<LB, KeyTok("verdict")>>, <<"no", RB, "yes", LB>>,
          LongText, LongText \o Serialize(JudgeFields(GoodScores(0), GoodScores(1))),
          <<LB>> \o LongText \o <<RB>>}

\* lines 403-463: the prompt, and the judge model's answer
JudgeCall ==
    /\ judge_pc = "idle"
    /\ \E v \in VendorOutcomes(env, anthropic_client, judge_ai, JudgeTexts) :
          LET prompt == JudgePrompt(Topic, debate_log, mode, ai_pro, ai_con)
              r == get_response(env, anthropic_client, judge_ai, prompt,
                                JudgeMaxWords, v)
          IN  /\ judge_response' = r.text
              /\ calls' = Append(calls, Call(0, "JUDGE", judge_ai, prompt, v, r))
    /\ judge_pc' = "called"
    /\ UNCHANGED <<env, anthropic_client, rounds, mode, ai_pro, ai_con, pc,
                   instruction_suffix, round_num, pro_prompt, con_prompt,
                   pro_response, con_response, debate_log, routerVars,
                   judge_ai, judging, appVars>>

\* lines 465-517
JudgeReturn ==
    /\ judge_pc = "called"
    /\ judging' = Handlers(JudgeBody(judge_ai, judge_response), judge_response)
    /\ judge_pc' = "returned"
    /\ UNCHANGED <<env, anthropic_client, debateVars, routerVars,
                   judge_ai, judge_response, appVars>>

SampleLog ==
    <<Turn(1, "claude-sonnet-4-20250514", <<"alpha">>, "gemini-2.0-flash", <<"beta">>),
      Turn(2, "claude-sonnet-4-20250514", <<"beta">>, "gemini-2.0-flash", <<"alpha">>)>>

JudgeIds == {"gpt-4", "claude-sonnet-4-20250514", "parrot-1"}

InitJudge ==
    /\ InitEngine
    /\ env \in {KeyNames, {}}
    /\ rounds = 2 /\ mode \in {"Adversarial", "Truth-Seeking"}
    /\ ai_pro = "claude-sonnet-4-20250514" /\ ai_con = "gemini-2.0-flash"
    /\ pc = "done"
    /\ instruction_suffix = InstructionSuffix(mode)
    /\ round_num = 2
    /\ pro_prompt = <<>> /\ con_prompt = <<>>
    /\ pro_response = <<"beta">> /\ con_response = <<"alpha">>
    /\ debate_log = SampleLog
    /\ calls = <<>>
    /\ RouterIdle
    /\ judge_ai \in JudgeIds
    /\ judge_pc = "idle" /\ judge_response = <<>> /\ judging = [kind |-> "none"]
    /\ enable_judging = TRUE /\ enable_audio = FALSE /\ AppIdle

NextJudge == JudgeCall \/ JudgeReturn

SpecJudge == InitJudge /\ [][NextJudge]_vars

----------------------------------------------------------------------------
(* The application (src/app.py): one press of "Run Debate".  The script    *)
(* runs top to bottom; app_pc is the stage it has reached.                 *)

MinRounds == 3              \* the smallest value of the rounds slider
SummaryMaxWords == 300
SummaryModel == "claude-sonnet-4-20250514"
SummaryFailureTag == "[Could not generate summary:"
SpeechCredential == "GOOGLE_API_KEY"
NarratorVoice == "en-US-Neural2-J"

\* one st.<fn>(...) call
Show(fn, label, text) == [fn |-> fn, label |-> label, text |-> text]

required_keys ==
    <<<<"claude", "ANTHROPIC_API_KEY">>, <<"gpt", "OPENAI_API_KEY">>,
      <<"gemini", "GOOGLE_API_KEY">>, <<"deepseek", "DEEPSEEK_API_KEY">>,
      <<"mistral", "MISTRAL_API_KEY">>, <<"cohere", "COHERE_API_KEY">>,
      <<"command", "COHERE_API_KEY">>, <<"groq", "GROQ_API_KEY">>,
      <<"llama", "GROQ_API_KEY">>, <<"ai21", "AI21_API_KEY">>,
      <<"jamba", "AI21_API_KEY">>>>

\* lines 272-274: the keys of one identifier that are not in the environment
MissingFor(e, ai) ==
    {required_keys[i][2] : i \in {j \in 1..Len(required_keys) :
        StartsWith(ai, required_keys[j][1]) /\ ~Getenv(e, required_keys[j][2])}}

\* the preflight without the judge's identifier
MissingKeys_nojudge(e, pro, con, ej, ja, ea) ==
    MissingFor(e, pro) \cup MissingFor(e, con)
    \cup (IF ea /\ ~Getenv(e, "ELEVENLABS_API_KEY")
          THEN {"ELEVENLABS_API_KEY"} ELSE {})

\* lines 270-284
MissingKeys(e, pro, con, ej, ja, ea) ==
    MissingFor(e, pro) \cup MissingFor(e, con)
    \cup (IF ej /\ ja # "" THEN MissingFor(e, ja) ELSE {})
    \cup (IF ea /\ ~Getenv(e, "ELEVENLABS_API_KEY")
          THEN {"ELEVENLABS_API_KEY"} ELSE {})

\* the judge stage placed before the summary
StageAfter_judgefirst(stage) ==
    CASE stage = "debate"  -> "judge"
      [] stage = "judge"   -> "summary"
      [] stage = "summary" -> "export"
      [] stage = "export"  -> "audio"
      [] stage = "audio"   -> "display"
      [] OTHER             -> "done"

\* the order of the statements of lines 295-478
StageAfter(stage) ==
    CASE stage = "debate"  -> "summary"
      [] stage = "summary" -> "judge"
      [] stage = "judge"   -> "export"
      [] stage = "export"  -> "audio"
      [] stage = "audio"   -> "display"
      [] OTHER             -> "done"

\* lines 254-295: the preflight; st.stop() or the call of run_debate
Preflight ==
    /\ app_pc = "idle"
    /\ LET missing == MissingKeys(env, ai_pro, ai_con, enable_judging,
                                  judge_ai, enable_audio)
       IN  /\ missing_keys' = missing
           /\ IF missing # {}
              THEN /\ screen' = screen \o
                        <<Show("error", "Missing API keys:", <<>>),
                          Show("info", "Please add the missing API keys to your environment variables on Render.", <<>>)>>
                   /\ app_pc' = "stopped"
                   /\ stages' = stages
              ELSE /\ screen' = screen
                   /\ app_pc' = "debate"
                   /\ stages' = Append(stages, "debate:start")
    /\ UNCHANGED <<env, anthropic_client, debateVars, routerVars, judgeVars,
                   enable_judging, enable_audio, has_errors, summary,
                   audio_data, tts>>

\* the scan looking at the PRO side only
HasErrors_proonly(log) ==
    \E i \in 1..Len(log) : Contains(log[i].pro_response, ERR)

\* lines 298-302
HasErrors(log) ==
    \E i \in 1..Len(log) :
        Contains(log[i].pro_response, ERR) \/ Contains(log[i].con_response, ERR)

\* lines 295-307: run_debate has returned
DebateReturned ==
    /\ app_pc = "debate" /\ pc = "done"
    /\ has_errors' = HasErrors(debate_log)
    /\ screen' = Append(screen,
          IF HasErrors(debate_log)
          THEN Show("warning", "Some API calls failed during the debate. See error messages below.", <<>>)
          ELSE Show("success", "Debate complete!", <<ToString(rounds)>>))
    /\ stages' = Append(stages, "debate:end")
    /\ app_pc' = StageAfter("debate")
    /\ UNCHANGED <<env, anthropic_client, debateVars, routerVars, judgeVars,
                   enable_judging, enable_audio, missing_keys, summary,
                   audio_data, tts>>

\* debate_engine.py lines 339-364
SummaryPrompt(topic, log, m) ==
    <<"Analyze this debate about:", topic, "PRO Arguments (all rounds):">>
    \o Flatten([i \in 1..Len(log) |->
            <<"Round " \o ToString(i) \o ":">> \o log[i].pro_response])
    \o <<"CON Arguments (all rounds):">>
    \o Flatten([i \in 1..Len(log) |->
            <<"Round " \o ToString(i) \o ":">> \o log[i].con_response])
    \o <<"Debate Mode: " \o m,
         "Provide a brief summary (200-300 words) covering:",
         "Be objective and concise.">>

\* debate_engine.py lines 337-382; body is what the try block did
generate_summary(topic, log, m, body) ==
    [kind |-> "dict",
     summary |-> IF body.kind = "return" THEN body.val
                 ELSE <<SummaryFailureTag, body.msg, "]">>,
     topic |-> topic, mode |-> m, total_rounds |-> Len(log)]

SummaryTexts == {<<"Both sides argued about cost.">>}

\* a summarizer that consumes the list it is given (pop instead of iterate)
SummaryStage_consuming ==
    /\ app_pc = "summary"
    /\ debate_log' = <<>>
    /\ summary' = generate_summary(Topic, debate_log, mode, Ret(<<>>))
    /\ stages' = stages \o <<"summary:start", "summary:end">>
    /\ app_pc' = StageAfter("summary")
    /\ UNCHANGED <<env, anthropic_client, rounds, mode, ai_pro, ai_con, pc,
                   instruction_suffix, round_num, pro_prompt, con_prompt,
                   pro_response, con_response, calls, routerVars, judgeVars,
                   enable_judging, enable_audio, missing_keys, has_errors,
                   audio_data, screen, tts>>

\* lines 309-311
SummaryStage ==
    /\ app_pc = "summary"
    /\ \E v \in VendorOutcomes(env, anthropic_client, SummaryModel, SummaryTexts) :
          LET prompt == SummaryPrompt(Topic, debate_log, mode)
              r == _get_claude_response(anthropic_client, SummaryModel, prompt,
                                        SummaryMaxWords, v)
          IN  /\ summary' = generate_summary(Topic, debate_log, mode, Ret(r.text))
              /\ calls' = Append(calls, Call(0, "SUMMARY", SummaryModel, prompt, v, r))
    /\ stages' = stages \o <<"summary:start", "summary:end">>
    /\ app_pc' = StageAfter("summary")
    /\ UNCHANGED <<env, anthropic_client, rounds, mode, ai_pro, ai_con, pc,
                   instruction_suffix, round_num, pro_prompt, con_prompt,
                   pro_response, con_response, debate_log, routerVars, judgeVars,
                   enable_judging, enable_audio, missing_keys, has_errors,
                   audio_data, screen, tts>>

\* what the judge model answers in an application run
AppJudgeTexts ==
    {Serialize(JudgeFields(GoodScores(0), GoodScores(1))),
     Serialize(<<<<"pro_scores", GoodScores(0)>>, <<"con_scores", GoodScores(1)>>,
                 <<"commentary", <<StrTok("PRO argued with more evidence.")>>>>,
                 <<"verdict", <<NumTok(1)>>>>>>),
     <<"I cannot judge this debate.">>}

\* isinstance(judging, dict) and "scores" in judging
HasScores(j) == j.kind = "dict"

\* lines 313-322
JudgeStage ==
    /\ app_pc = "judge"
    /\ IF enable_judging /\ judge_ai # "" /\ ~has_errors
       THEN \E v \in VendorOutcomes(env, anthropic_client, judge_ai, AppJudgeTexts) :
              LET prompt == JudgePrompt(Topic, debate_log, mode, ai_pro, ai_con)
                  r == get_response(env, anthropic_client, judge_ai, prompt,
                                    JudgeMaxWords, v)
                  j == Handlers(JudgeBody(judge_ai, r.text), r.text)
              IN  /\ judge_response' = r.text
                  /\ judging' = j
                  /\ judge_pc' = "returned"
                  /\ calls' = Append(calls, Call(0, "JUDGE", judge_ai, prompt, v, r))
                  /\ screen' = Append(screen,
                        IF HasScores(j)
                        THEN Show("success", "Judge scoring complete!", <<>>)
                        ELSE Show("warning", "Judge scoring encountered an error. See details below.", <<>>))
                  /\ stages' = stages \o <<"judge:start", "judge:end">>
       ELSE UNCHANGED <<judge_response, judging, judge_pc, calls, screen, stages>>
    /\ app_pc' = StageAfter("judge")
    /\ UNCHANGED <<env, anthropic_client, rounds, mode, ai_pro, ai_con, pc,
                   instruction_suffix, round_num, pro_prompt, con_prompt,
                   pro_response, con_response, debate_log, routerVars, judge_ai,
                   enable_judging, enable_audio, missing_keys, has_errors,
                   summary, audio_data, tts>>

\* a JSON value written into a text: str(v) where Python formats it, the
\* value itself where it is joined as a string
Cell(v) == IF v.k = "str" THEN v.s ELSE IF v.k = "num" THEN ToString(v.n) ELSE "{...}"

\* "\n".join(parts): every part must be a str
Join(parts) ==
    IF \E i \in 1..Len(parts) : parts[i].k # "str"
    THEN Exc("TypeError", "sequence item: expected str instance")
    ELSE Ret([i \in 1..Len(parts) |-> parts[i].s])

Strs(tokens) == [i \in 1..Len(tokens) |-> Str(tokens[i])]

\* lines 140-142, 177, 199-209: the Turns as an export writes them
TurnLines(log) ==
    Flatten([i \in 1..Len(log) |->
        <<"ROUND " \o ToString(log[i].round), "PRO (" \o log[i].pro_ai \o "):">>
        \o log[i].pro_response
        \o <<"CON (" \o log[i].con_ai \o "):">>
        \o log[i].con_response])

\* lines 152-160, 225-237
ScoreLines(scores) ==
    Flatten([i \in 1..Len(CategorySeq) |->
        <<CategorySeq[i], Cell(scores.pro[CategorySeq[i]]),
          Cell(scores.con[CategorySeq[i]])>>])
    \o <<"TOTAL", Cell(scores.pro["total"]), Cell(scores.con["total"])>>

\* lines 125-168: csv.writer writes str(value) of every cell
create_csv_export(log, topic, m, sum, j) ==
    Ret(<<"AI Debate Arena Export", "Topic", topic, "Mode", m>>
        \o TurnLines(log)
        \o (IF HasScores(j)
            THEN <<"JUDGE SCORING", j.val.judge_ai>> \o ScoreLines(j.val.scores)
                 \o <<"Judge's Commentary", Cell(j.val.commentary),
                      "Verdict", Cell(j.val.verdict)>>
            ELSE <<>>))

\* lines 170-184: json.dumps of the whole record
create_json_export(log, topic, m, sum, j) ==
    Ret(<<"topic", topic, "mode", m, "rounds", ToString(Len(log)), "debate">>
        \o TurnLines(log)
        \o <<"summary">> \o sum.summary
        \o (IF j.kind = "dict"
            THEN <<"judging", j.val.judge_ai>> \o ScoreLines(j.val.scores)
                 \o <<Cell(j.val.commentary), Cell(j.val.verdict)>>
            ELSE <<>>))

\* lines 186-249: the lines are joined at the end
create_txt_export(log, topic, m, sum, j) ==
    Join(Strs(<<"AI DEBATE ARENA - DEBATE TRANSCRIPT", "Topic: " \o topic,
                "Mode: " \o m, "Total Rounds: " \o ToString(Len(log))>>
              \o TurnLines(log)
              \o <<"DEBATE SUMMARY">> \o sum.summary)
         \o (IF HasScores(j)
             THEN Strs(<<"JUDGE SCORING", "Judge: " \o j.val.judge_ai>>
                       \o ScoreLines(j.val.scores) \o <<"JUDGE'S COMMENTARY:">>)
                  \o <<j.val.commentary>> \o Strs(<<"VERDICT:">>)
                  \o <<j.val.verdict>>
             ELSE <<>>))

\* lines 480-482: the handler of the run's try block
RunFailed(e) == Show("error", "Error running debate:", <<e.msg>>)

\* lines 324-359: the header and the three exports, in order; the first
\* export that raises ends the run in the handler of line 480
ExportStage ==
    /\ app_pc = "export"
    /\ LET files == <<create_csv_export(debate_log, Topic, mode, summary, judging),
                      create_json_export(debate_log, Topic, mode, summary, judging),
                      create_txt_export(debate_log, Topic, mode, summary, judging)>>
           labels == <<"Download CSV", "Download JSON", "Download TXT">>
           bad == {i \in 1..3 : files[i].kind = "raise"}
           upto == IF bad = {} THEN 3
                   ELSE (CHOOSE i \in bad : \A k \in bad : i <= k) - 1
       IN  /\ screen' = screen
                 \o <<Show("markdown", "Topic:", <<Topic>>)>>
                 \o [i \in 1..upto |-> Show("download_button", labels[i], files[i].val)]
                 \o (IF bad = {} THEN <<>> ELSE <<RunFailed(files[upto + 1])>>)
           /\ app_pc' = IF bad = {} THEN StageAfter("export") ELSE "crashed"
    /\ UNCHANGED <<env, anthropic_client, debateVars, routerVars, judgeVars,
                   enable_judging, enable_audio, missing_keys, has_errors,
                   summary, audio_data, stages, tts>>

PyBytes(b) == [kind |-> "bytes", val |-> Null, text |-> b]

\* debate_engine.py lines 552-597: script_parts
ScriptParts(topic, log, m, sum, j, pa, ca) ==
    Strs(<<"AI Debate Arena presents: " \o topic,
           "This is a " \o m \o " debate with " \o ToString(Len(log)) \o " rounds.",
           "Arguing for the PRO side: " \o pa,
           "Arguing for the CON side: " \o ca,
           "Let the debate begin!", "">>)
    \o Flatten([i \in 1..Len(log) |->
          Strs(<<"Round " \o ToString(log[i].round), "", "PRO argument:">>
               \o log[i].pro_response \o <<"", "CON argument:">>
               \o log[i].con_response \o <<"">>)])
    \o (IF sum.kind # "none" /\ sum.summary # <<>>
        THEN Strs(<<"Debate Summary">> \o sum.summary \o <<"">>)
        ELSE <<>>)
    \o (IF HasScores(j)
        THEN Strs(<<"Judge's Verdict", "",
                    "The judge has scored the debate across six categories.",
                    "PRO total score: " \o Cell(j.val.scores.pro["total"]) \o " out of 60",
                    "CON total score: " \o Cell(j.val.scores.con["total"]) \o " out of 60",
                    "", "Judge's Commentary:">>)
             \o <<j.val.commentary>> \o Strs(<<"", "Final Verdict:">>)
             \o <<j.val.verdict>>
        ELSE <<>>)

\* what the speech vendor does with one request
AudioOutcomes == {Ok(<<"mp3">>), Ok(<<>>), Raised(<<"quota exceeded">>)}

\* debate_engine.py lines 539-632.  lib: google-cloud-texttospeech can be
\* imported; v: what the vendor does.  The result, and the synthesis calls.
generate_audio(e, lib, topic, log, m, sum, j, pa, ca, v) ==
    LET full_script == Join(ScriptParts(topic, log, m, sum, j, pa, ca))
        failed(msg) == PyStr(<<ERR, "Audio generation failed -", msg, "]">>)
    IN  IF ~lib
        THEN [result |-> PyStr(<<ERR, "google-cloud-texttospeech not installed. Run: pip install google-cloud-texttospeech]">>),
              requests |-> <<>>]
        ELSE IF ~Getenv(e, SpeechCredential)
        THEN [result |-> PyStr(<<ERR, SpeechCredential \o " not found in environment]">>),
              requests |-> <<>>]
        ELSE IF full_script.kind = "raise"
        THEN [result |-> failed(full_script.msg), requests |-> <<>>]
        ELSE [result |-> IF v.kind = "ok" THEN PyBytes(v.text)
                         ELSE failed(v.text[1]),
              requests |-> <<[voice |-> NarratorVoice, text |-> full_script.val]>>]

\* lines 369-379: what the application shows for the value it got
AudioNotice(a) ==
    IF a.kind = "bytes" /\ a.text # <<>>
    THEN <<Show("download_button", "Download MP3", a.text),
           Show("success", "Audio generated!", <<>>)>>
    ELSE <<Show("error", "Audio generation failed:", a.text)>>

\* lines 361-381
AudioStage ==
    /\ app_pc = "audio"
    /\ IF enable_audio /\ ~has_errors
       THEN \E lib \in BOOLEAN, v \in AudioOutcomes :
              LET out == generate_audio(env, lib, Topic, debate_log, mode, summary,
                                        judging, ai_pro, ai_con, v)
              IN  /\ audio_data' = out.result
                  /\ tts' = tts \o out.requests
                  /\ screen' = screen \o AudioNotice(out.result)
                  /\ stages' = stages \o <<"audio:start", "audio:end">>
       ELSE UNCHANGED <<audio_data, tts, screen, stages>>
    /\ app_pc' = StageAfter("audio")
    /\ UNCHANGED <<env, anthropic_client, debateVars, routerVars, judgeVars,
                   enable_judging, enable_audio, missing_keys, has_errors, summary>>

\* every response rendered with st.markdown
RoundDisplay_plain(log) ==
    Flatten([i \in 1..Len(log) |->
        <<Show("markdown", "Round " \o ToString(log[i].round), <<>>),
          Show("markdown", "PRO", <<log[i].pro_ai>>),
          Show("markdown", "PRO text", log[i].pro_response),
          Show("markdown", "CON", <<log[i].con_ai>>),
          Show("markdown", "CON text", log[i].con_response)>>])

\* lines 386-409
RoundDisplay(log) ==
    Flatten([i \in 1..Len(log) |->
        <<Show("markdown", "Round " \o ToString(log[i].round), <<>>),
          Show("markdown", "PRO", <<log[i].pro_ai>>),
          Show(IF Contains(log[i].pro_response, ERR) THEN "error" ELSE "markdown",
               "PRO text", log[i].pro_response),
          Show("markdown", "CON", <<log[i].con_ai>>),
          Show(IF Contains(log[i].con_response, ERR) THEN "error" ELSE "markdown",
               "CON text", log[i].con_response)>>])

\* lines 411-418
SummaryDisplay(sum) ==
    <<Show("markdown", "Debate Summary", <<>>),
      Show(IF Contains(sum.summary, SummaryFailureTag) THEN "warning" ELSE "markdown",
           "Summary text", sum.summary)>>

\* the display without the branch of line 472
JudgeDisplay_scoresonly(j) ==
    IF HasScores(j)
    THEN <<Show("markdown", "Judge Scoring", <<j.val.judge_ai>>),
           Show("table", "Score Breakdown (0-10 scale)", ScoreLines(j.val.scores)),
           Show("markdown", "Judge's Commentary", <<Cell(j.val.commentary)>>),
           Show("info", "Final Verdict", <<Cell(j.val.verdict)>>)>>
    ELSE <<>>

\* lines 420-475
JudgeDisplay(j) ==
    IF HasScores(j)
    THEN <<Show("markdown", "Judge Scoring", <<j.val.judge_ai>>),
           Show("table", "Score Breakdown (0-10 scale)", ScoreLines(j.val.scores)),
           Show("markdown", "Judge's Commentary", <<Cell(j.val.commentary)>>),
           Show("info", "Final Verdict", <<Cell(j.val.verdict)>>)>>
    ELSE IF j.kind = "str" /\ Contains(j.text, ERR)
    THEN <<Show("markdown", "Judge Scoring", <<>>),
           Show("error", "Judge scoring failed:", j.text)>>
    ELSE <<>>

\* lines 385-478
Display ==
    /\ app_pc = "display"
    /\ screen' = screen \o RoundDisplay(debate_log) \o SummaryDisplay(summary)
                        \o JudgeDisplay(judging)
                        \o <<Show("caption", "Debate completed at", <<>>)>>
    /\ app_pc' = StageAfter("display")
    /\ UNCHANGED <<env, anthropic_client, debateVars, routerVars, judgeVars,
                   enable_judging, enable_audio, missing_keys, has_errors,
                   summary, audio_data, stages, tts>>

\* run_debate, called at line 295
DebateStep ==
    /\ app_pc = "debate"
    /\ (RunDebate \/ CallPro \/ CallCon \/ AppendTurn)

AppEnvs == {KeyNames \ m : m \in {{}, {"ELEVENLABS_API_KEY"}, {"GOOGLE_API_KEY"},
                                  {"ANTHROPIC_API_KEY"}, {"OPENAI_API_KEY"},
                                  {"GROQ_API_KEY"}}}

InitApp ==
    /\ InitEngine
    /\ env \in AppEnvs
    /\ rounds = MinRounds
    /\ mode = "Adversarial"
    /\ ai_pro = "gpt-4"
    /\ ai_con = "llama-3.3-70b-versatile"
    /\ enable_judging \in BOOLEAN
    /\ enable_audio \in BOOLEAN
    /\ judge_ai = (IF enable_judging THEN "claude-sonnet-4-20250514" ELSE "")
    /\ judge_pc = "idle" /\ judge_response = <<>> /\ judging = [kind |-> "none"]
    /\ DebateIdle /\ RouterIdle /\ AppIdle

NextApp ==
    \/ Preflight
    \/ DebateStep
    \/ DebateReturned
    \/ SummaryStage
    \/ JudgeStage
    \/ ExportStage
    \/ AudioStage
    \/ Display

SpecApp == InitApp /\ [][NextApp]_vars

----------------------------------------------------------------------------
(* Claims about judge_debate (specification SpecJudge) *)

JudgeReturned == judge_pc = "returned"

\* The first top-level balanced {...} region of a text, found by counting
\* depth from the first "{"; <<>> when there is none.
RECURSIVE ClosingBrace(_, _, _)
ClosingBrace(t, pos, depth) ==
    IF pos > Len(t) THEN 0
    ELSE IF t[pos] = LB THEN ClosingBrace(t, pos + 1, depth + 1)
    ELSE IF t[pos] = RB
    THEN (IF depth = 1 THEN pos ELSE ClosingBrace(t, pos + 1, depth - 1))
    ELSE ClosingBrace(t, pos + 1, depth)

FirstBalancedRegion(t) ==
    IF ~Contains(t, LB) THEN <<>>
    ELSE LET i == CHOOSE a \in 1..Len(t) : t[a] = LB /\ \A b \in 1..(a - 1) : t[b] # LB
             j == ClosingBrace(t, i + 1, 1)
         IN  IF j = 0 THEN <<>> ELSE SubSeq(t, i, j)

IsScoreMap(v) ==
    /\ v.k = "obj"
    /\ DOMAIN v.m = Categories
    /\ \A c \in Categories : v.m[c].k = "num"

SchemaValid(v) ==
    /\ v.k = "obj"
    /\ DOMAIN v.m = {"pro_scores", "con_scores", "commentary", "verdict"}
    /\ IsScoreMap(v.m["pro_scores"]) /\ IsScoreMap(v.m["con_scores"])
    /\ v.m["commentary"].k = "str" /\ v.m["verdict"].k = "str"

SumSix(sheet) == SumOver(sheet, Categories)

VerdictOf(ja, v) ==
    [judge_ai |-> ja,
     scores |-> [pro |-> [c \in Categories \cup {"total"} |->
                            IF c = "total" THEN Num(SumSix(v.m["pro_scores"].m))
                            ELSE v.m["pro_scores"].m[c]],
                 con |-> [c \in Categories \cup {"total"} |->
                            IF c = "total" THEN Num(SumSix(v.m["con_scores"].m))
                            ELSE v.m["con_scores"].m[c]]],
     commentary |-> v.m["commentary"],
     verdict |-> v.m["verdict"]]

HoldsValidObject(t) ==
    /\ FirstBalancedRegion(t) # <<>>
    /\ json_loads(FirstBalancedRegion(t)).kind = "return"
    /\ SchemaValid(json_loads(FirstBalancedRegion(t)).val)

BraceFreeAfterRegion(t) ==
    LET i == CHOOSE a \in 1..Len(t) : t[a] = LB /\ \A b \in 1..(a - 1) : t[b] # LB
        j == ClosingBrace(t, i + 1, 1)
    IN  \A n \in (j + 1)..Len(t) : t[n] \notin {LB, RB}

\* C7: whenever the judge model's answer (free of the error marker) is
\* prose without braces, then a balanced {...} region holding a schema-valid
\* object, then any prose at all, judge_debate returns the Verdict that
\* region encodes.
C7_FirstBalancedRegion ==
    (JudgeReturned /\ ~Contains(judge_response, ERR)
        /\ HoldsValidObject(judge_response)) =>
        judging = PyDict(VerdictOf(judge_ai,
                      json_loads(FirstBalancedRegion(judge_response)).val))

\* what the code does achieve: the same, when the prose after the region
\* holds no brace
C7_BraceFreeProse ==
    (JudgeReturned /\ ~Contains(judge_response, ERR)
        /\ HoldsValidObject(judge_response)
        /\ BraceFreeAfterRegion(judge_response)) =>
        judging = PyDict(VerdictOf(judge_ai,
                      json_loads(FirstBalancedRegion(judge_response)).val))

C7_BraceFreeWitness ==
    /\ JudgeReturned /\ judging.kind = "dict"
    /\ Len(judge_response) > Len(FirstBalancedRegion(judge_response))
    /\ judge_response[1] # LB /\ Last(judge_response) # RB

\* C8: judge_debate returns, whatever the judge model answered: a dict with
\* every field of a Verdict (six numeric scores and a total per side,
\* commentary, verdict, judge) or a string that starts with the error
\* marker; never an exception.  An adapter failure is reported as a judge
\* API failure; an answer that holds no parsable {...} region and is not
\* JSON as a whole yields the could-not-parse error carrying the answer's
\* first SnippetLen tokens.
NoStructuredRegion(t) ==
    /\ json_loads(t).kind = "raise"
    /\ \A i \in {a \in 1..Len(t) : t[a] = LB} :
          \A j \in {b \in i..Len(t) : t[b] = RB} :
              json_loads(SubSeq(t, i, j)).kind = "raise"

CompleteVerdict(d) ==
    /\ DOMAIN d = {"judge_ai", "scores", "commentary", "verdict"}
    /\ DOMAIN d.scores = {"pro", "con"}
    /\ \A side \in {"pro", "con"} :
          /\ DOMAIN d.scores[side] = Categories \cup {"total"}
          /\ \A c \in Categories \cup {"total"} : d.scores[side][c].k = "num"

C8_JudgeNeverRaises ==
    JudgeReturned =>
        /\ judging.kind \in {"dict", "str"}
        /\ judging.kind = "dict" => CompleteVerdict(judging.val)
        /\ judging.kind = "str" => IsTagged(judging.text)
        /\ Failed(calls[Len(calls)]) =>
              judging = PyStr(<<ERR, "Judge API call failed -">>
                              \o judge_response \o <<"]">>)
        /\ (~Contains(judge_response, ERR) /\ NoStructuredRegion(judge_response)) =>
              /\ judging.kind = "str"
              /\ Len(judging.text) =
                    5 + (IF Len(judge_response) > SnippetLen THEN SnippetLen
                         ELSE Len(judge_response))
              /\ judging.text[2] = "Could not parse judge response as JSON -"
              /\ \A n \in 1..(Len(judging.text) - 5) :
                    judging.text[4 + n] = judge_response[n]
              /\ Last(judging.text) = "...]"

\* an answer longer than the snippet, reported cut
C8_Witness ==
    /\ JudgeReturned /\ Len(judge_response) > SnippetLen
    /\ NoStructuredRegion(judge_response)
    /\ judging.kind = "str" /\ Len(judging.text) = SnippetLen + 5

\* an answer that parses to a number: subscripting it raises TypeError
C8_WitnessNonObject ==
    /\ JudgeReturned /\ judge_response = <<NumTok(1)>>
    /\ judging.kind = "str" /\ judging.text[2] = "Judge evaluation failed -"

\* C9: in every Verdict returned, each side's total is the sum of the six
\* category scores of that side in the Verdict.
C9_TotalsAreSums ==
    (JudgeReturned /\ judging.kind = "dict") =>
        \A side \in {"pro", "con"} :
            judging.val.scores[side]["total"].n = SumSix(judging.val.scores[side])

\* C10: a Verdict is returned only if both score maps of the parsed answer
\* hold exactly the six categories; and if the parsed object lacks a score
\* map, commentary or verdict, or a score map lacks one of the six, the
\* missing-field error is returned.
Lacks(v, key) == v.k = "obj" /\ key \notin DOMAIN v.m

MissingSomething(v) ==
    \/ \E key \in {"pro_scores", "con_scores", "commentary", "verdict"} : Lacks(v, key)
    \/ \E key \in {"pro_scores", "con_scores"} :
          /\ ~Lacks(v, key) /\ v.m[key].k = "obj"
          /\ \E c \in Categories : Lacks(v.m[key], c)

C10_ExactlySixCategories ==
    (JudgeReturned /\ ~Contains(judge_response, ERR)
        /\ ExtractJson(judge_response).kind = "return"
        /\ ExtractJson(judge_response).val.k = "obj") =>
        LET v == ExtractJson(judge_response).val IN
        /\ judging.kind = "dict" =>
              /\ DOMAIN v.m["pro_scores"].m = Categories
              /\ DOMAIN v.m["con_scores"].m = Categories
        /\ MissingSomething(v) =>
              /\ judging.kind = "str"
              /\ judging.text[2] = "Missing required field in judge response -"

----------------------------------------------------------------------------
(* Claims about the application's run (specification SpecApp) *)

OnScreen(e) == \E i \in 1..Len(screen) : screen[i] = e

CallsOf(side) == {i \in 1..Len(calls) : calls[i].side = side}

SummaryShownAs(fn) == OnScreen(Show(fn, "Summary text", summary.summary))

\* C11: once generate_summary has returned, summary is a Summary; and when
\* the summarizer's adapter call failed, its text carries the tag the
\* display looks for, so the finished run shows it as a warning and not as
\* markdown.
C11_SummaryFailureTagged ==
    /\ summary.kind \in {"none", "dict"}
    /\ \A i \in CallsOf("SUMMARY") :
          (summary.kind = "dict" /\ Failed(calls[i])) =>
              /\ summary.summary = calls[i].text
              /\ Contains(summary.summary, SummaryFailureTag)
              /\ app_pc = "done" =>
                    SummaryShownAs("warning") /\ ~SummaryShownAs("markdown")

\* the models whose adapters the run will call
ModelsOfRun ==
    {ai_pro, ai_con} \cup (IF enable_judging /\ judge_ai # "" THEN {judge_ai} ELSE {})

AdapterOf(ai) == Dispatch({}, FALSE, ai, <<>>, 0, Raised(<<>>)).adapter

\* C12: after the preflight, if the credential of the PRO, CON or (judging
\* enabled) judge model's adapter is absent, the run is stopped with the
\* missing-keys error, that credential is in the list, run_debate was never
\* entered and no adapter or vendor call was made; and the preflight's table
\* gives every routable prefix the credential its adapter reads.
C12_PreflightGate ==
    /\ \A ai \in ModelsOfRun :
          (app_pc # "idle" /\ AdapterOf(ai) # "none"
                /\ ~Getenv(env, CredentialOf(AdapterOf(ai)))) =>
              /\ app_pc = "stopped"
              /\ CredentialOf(AdapterOf(ai)) \in missing_keys
              /\ screen[1] = Show("error", "Missing API keys:", <<>>)
              /\ pc = "idle" /\ calls = <<>> /\ tts = <<>> /\ stages = <<>>
    /\ \A row \in RoutingTable :
          \E i \in 1..Len(required_keys) :
              required_keys[i] = <<row[1], CredentialOf(row[2])>>
    /\ \A i \in 1..Len(required_keys) :
          \A id \in RouterIds :
              StartsWith(id, required_keys[i][1]) =>
                  CredentialOf(AdapterOf(id)) = required_keys[i][2]

\* only the judge's credential is absent
C12_Witness ==
    /\ app_pc = "stopped" /\ enable_judging
    /\ missing_keys = {"ANTHROPIC_API_KEY"}
    /\ calls = <<>>

\* C13: in a run that passed the preflight, the credential of every adapter
\* a stage has called is present, and so is the speech renderer's once the
\* audio stage has started.
C13_PreflightComplete ==
    app_pc \notin {"idle", "stopped"} =>
        /\ \A i \in 1..Len(calls) :
              calls[i].adapter # "none" =>
                  Getenv(env, CredentialOf(calls[i].adapter))
        /\ Contains(stages, "audio:start") => Getenv(env, SpeechCredential)

StageEvents ==
    <<"debate:start", "debate:end", "summary:start", "summary:end",
      "judge:start", "judge:end", "audio:start", "audio:end">>

Rank(ev) == CHOOSE n \in 1..Len(StageEvents) : StageEvents[n] = ev

\* C14: the stage events of a run are in the order debate, summary, judge,
\* audio, each start directly followed by its end (no stage starts while
\* another is open); summary and judge start only once run_debate has
\* returned all rounds; audio starts only after the summary and, when the
\* judge runs, the judge have returned; and the calls are made in that
\* order: the debaters' 2*rounds calls, the summarizer's, the judge's, the
\* synthesis.
C14_PipelineOrder ==
    /\ Len(stages) > 0 => stages[1] = "debate:start"
    /\ \A i \in 1..(Len(stages) - 1) :
          /\ Rank(stages[i]) < Rank(stages[i + 1])
          /\ Rank(stages[i]) % 2 = 1 => Rank(stages[i + 1]) = Rank(stages[i]) + 1
    /\ (Len(stages) > 0 /\ Rank(Last(stages)) % 2 = 1) =>
          /\ Last(stages) = "debate:start"
          /\ CallsOf("SUMMARY") = {} /\ CallsOf("JUDGE") = {} /\ tts = <<>>
    /\ (Contains(stages, "summary:start") \/ Contains(stages, "judge:start")) =>
          pc = "done" /\ Len(debate_log) = rounds
    /\ Contains(stages, "judge:start") => Contains(stages, "summary:end")
    /\ Contains(stages, "audio:start") =>
          /\ Contains(stages, "summary:end")
          /\ (enable_judging /\ ~has_errors) => Contains(stages, "judge:end")
    /\ CallsOf("SUMMARY") = (IF Contains(stages, "summary:start")
                             THEN {2 * rounds + 1} ELSE {})
    /\ CallsOf("JUDGE") = (IF Contains(stages, "judge:start")
                           THEN {2 * rounds + 2} ELSE {})
    /\ tts # <<>> => Contains(stages, "audio:start")

C14_Witness ==
    /\ app_pc = "done" /\ stages = StageEvents
    /\ Len(calls) = 2 * rounds + 2 /\ Len(tts) = 1

\* the rounds as the claim orders them: round by round, PRO then CON
RoundsNarrated(log) ==
    Flatten([i \in 1..Len(log) |->
        <<"Round " \o ToString(i), "", "PRO argument:">> \o log[i].pro_response
        \o <<"", "CON argument:">> \o log[i].con_response \o <<"">>])

\* C15: every text sent to synthesis opens with the intro, continues with
\* the rounds in ascending order (PRO's text, then CON's), and, when there is
\* a Verdict, ends with a verdict section that holds both totals and the
\* verdict text and does not hold the judge's commentary.
C15_NarrationContent ==
    \A i \in 1..Len(tts) :
        LET s == tts[i].text IN
        /\ s[1] = "AI Debate Arena presents: " \o Topic
        /\ SubSeq(s, 7, 6 + Len(RoundsNarrated(debate_log))) = RoundsNarrated(debate_log)
        /\ HasScores(judging) =>
              /\ Contains(s, "PRO total score: "
                     \o Cell(judging.val.scores.pro["total"]) \o " out of 60")
              /\ Contains(s, "CON total score: "
                     \o Cell(judging.val.scores.con["total"]) \o " out of 60")
              /\ Last(s) = Cell(judging.val.verdict)
              /\ ~Contains(s, Cell(judging.val.commentary))

\* what the code does achieve: the order of C15, with the commentary narrated
C15_NarrationOrder ==
    \A i \in 1..Len(tts) :
        LET s == tts[i].text IN
        /\ s[1] = "AI Debate Arena presents: " \o Topic
        /\ SubSeq(s, 7, 6 + Len(RoundsNarrated(debate_log))) = RoundsNarrated(debate_log)
        /\ HasScores(judging) =>
              /\ Last(s) = Cell(judging.val.verdict)
              /\ Contains(s, Cell(judging.val.commentary))

\* the voice roles of the narration
VoiceRoles == {"PRO", "CON", "NARRATOR/JUDGE"}

\* C16: when generate_audio returns audio, it has issued between
\* 2*rounds and 2*rounds+2 synthesis calls, one per round per side (the
\* call's text being that Turn side's text) and the framing calls, and the
\* PRO, CON and narrator calls use three different voices.
C16_NarrationChunks ==
    audio_data.kind = "bytes" =>
        /\ Len(tts) >= 2 * Len(debate_log)
        /\ Len(tts) <= 2 * Len(debate_log) + 2
        /\ \A k \in 1..Len(debate_log) :
              /\ \E i \in 1..Len(tts) : tts[i].text = debate_log[k].pro_response
              /\ \E i \in 1..Len(tts) : tts[i].text = debate_log[k].con_response
        /\ Cardinality({tts[i].voice : i \in 1..Len(tts)}) = Cardinality(VoiceRoles)

\* C17: from the return of run_debate on, no step changes the transcript,
\* and what each stage was given is that transcript: the summarizer's and
\* the judge's prompt, the three exports, the narration and the display are
\* the ones built from it.
TranscriptReturned == pc = "done" /\ app_pc # "idle"

BuiltFromTranscript ==
    /\ \A i \in CallsOf("SUMMARY") :
          calls[i].prompt = SummaryPrompt(Topic, debate_log, mode)
    /\ \A i \in CallsOf("JUDGE") :
          calls[i].prompt = JudgePrompt(Topic, debate_log, mode, ai_pro, ai_con)
    /\ \A i \in 1..Len(tts) :
          SubSeq(tts[i].text, 7, 6 + Len(RoundsNarrated(debate_log)))
              = RoundsNarrated(debate_log)
    /\ \A i \in 1..Len(screen) :
          screen[i].label \in {"Download CSV", "Download JSON"} =>
              \E n \in 1..Len(screen[i].text) :
                  SubSeq(screen[i].text, n, n + Len(TurnLines(debate_log)) - 1)
                      = TurnLines(debate_log)
    /\ app_pc = "done" =>
          \A k \in 1..Len(debate_log) :
              /\ \E i \in 1..Len(screen) :
                    screen[i].label = "PRO text"
                    /\ screen[i].text = debate_log[k].pro_response
              /\ \E i \in 1..Len(screen) :
                    screen[i].label = "CON text"
                    /\ screen[i].text = debate_log[k].con_response

C17_TranscriptImmutable ==
    [][TranscriptReturned => (debate_log' = debate_log /\ BuiltFromTranscript')]_vars

C17_Witness ==
    /\ app_pc = "done" /\ Len(debate_log) = rounds
    /\ HasScores(judging) /\ audio_data.kind = "bytes" /\ tts # <<>>
    /\ OnScreen(Show("download_button", "Download TXT",
                     create_txt_export(debate_log, Topic, mode, summary, judging).val))

\* C18: once the judge stage has returned an error value, or the audio
\* stage has returned an error value or no audio, the run is neither
\* stopped nor ended by the handler of the run's try block, the stage's own
\* failure notice is on the screen, and the finished run shows every round
\* of the transcript, the summary, and the judge's failure under its own
\* heading.
JudgeFailed == judging.kind = "str"
AudioFailed ==
    \/ audio_data.kind = "str"
    \/ audio_data.kind = "bytes" /\ audio_data.text = <<>>

C18_StageFailureNonBlocking ==
    (JudgeFailed \/ AudioFailed) =>
        /\ app_pc \in {"export", "audio", "display", "done"}
        /\ JudgeFailed =>
              OnScreen(Show("warning", "Judge scoring encountered an error. See details below.", <<>>))
        /\ AudioFailed =>
              OnScreen(Show("error", "Audio generation failed:", audio_data.text))
        /\ app_pc = "done" =>
              /\ \A k \in 1..rounds :
                    /\ OnScreen(Show("markdown", "Round " \o ToString(k), <<>>))
                    /\ OnScreen(Show("markdown", "PRO text", debate_log[k].pro_response))
                    /\ OnScreen(Show("markdown", "CON text", debate_log[k].con_response))
              /\ SummaryShownAs("markdown") \/ SummaryShownAs("warning")
              /\ JudgeFailed =>
                    OnScreen(Show("error", "Judge scoring failed:", judging.text))

\* the judge's answer could not be parsed and the synthesis call failed
C18_Witness ==
    /\ app_pc = "done" /\ JudgeFailed /\ audio_data.kind = "str"
    /\ Len(tts) = 1
    /\ OnScreen(Show("error", "Judge scoring failed:", judging.text))

\* some Turn of the transcript holds the error marker on either side
AnyTurnFailed ==
    \E k \in 1..Len(debate_log) :
        \/ Contains(debate_log[k].pro_response, ERR)
        \/ Contains(debate_log[k].con_response, ERR)

\* C24: judge_debate and generate_audio are invoked only when no Turn of
\* the transcript holds "[ERROR:" on either side and the stage is enabled
\* (and, past their place in the run, they have been invoked whenever that
\* is so); generate_summary has been invoked in every run past the debate,
\* whether or not a Turn failed.
C24_StageGating ==
    /\ Contains(stages, "judge:start") \/ CallsOf("JUDGE") # {} =>
          enable_judging /\ ~AnyTurnFailed
    /\ Contains(stages, "audio:start") \/ Len(tts) > 0 =>
          enable_audio /\ ~AnyTurnFailed
    /\ app_pc \in {"export", "audio", "display", "done", "crashed"} =>
          (Contains(stages, "judge:start") <=> (enable_judging /\ ~AnyTurnFailed))
    /\ app_pc \in {"display", "done"} =>
          (Contains(stages, "audio:start") <=> (enable_audio /\ ~AnyTurnFailed))
    /\ app_pc \in {"judge", "export", "audio", "display", "done", "crashed"} =>
          /\ Contains(stages, "summary:start")
          /\ Cardinality(CallsOf("SUMMARY")) = 1
          /\ summary.kind = "dict"

\* a finished run with both stages enabled and a failed Turn: summarized,
\* neither judged nor narrated
C24_Witness ==
    /\ app_pc = "done" /\ enable_judging /\ enable_audio
    /\ AnyTurnFailed
    /\ Contains(debate_log[2].con_response, ERR)
    /\ CallsOf("SUMMARY") # {}
    /\ CallsOf("JUDGE") = {} /\ Len(tts) = 0
    /\ ~Contains(stages, "judge:start") /\ ~Contains(stages, "audio:start")

\* a finished clean run with both stages enabled: summarized, judged, narrated
C24_WitnessClean ==
    /\ app_pc = "done" /\ enable_judging /\ enable_audio
    /\ ~AnyTurnFailed
    /\ CallsOf("SUMMARY") # {} /\ CallsOf("JUDGE") # {} /\ Len(tts) = 1

\* what the per-turn display shows for a side of Turn k
ShownFor(log, k, side) ==
    RoundDisplay(log)[5 * (k - 1) + (IF side = "PRO" THEN 3 ELSE 5)]

TextOf(turn, side) ==
    IF side = "PRO" THEN turn.pro_response ELSE turn.con_response

\* C25: every call of a run that failed (the identifier is not supported,
\* the credential is missing, the vendor call raised) returned a string
\* holding "[ERROR:", and the Turn side that holds it is classified as failed
\* by the application: the has_errors scan of the transcript (and of that
\* Turn alone) is true and the per-turn display shows that side with
\* st.error, not st.markdown.
C25_FailureDetection ==
    /\ \A i \in 1..Len(calls) :
          Failed(calls[i]) => Contains(calls[i].text, ERR)
    /\ \A k \in 1..Len(debate_log) : \A side \in {"PRO", "CON"} :
          Failed(calls[CallIndex(k, side)]) =>
              /\ TextOf(debate_log[k], side) = calls[CallIndex(k, side)].text
              /\ HasErrors(debate_log)
              /\ HasErrors(<<debate_log[k]>>)
              /\ ShownFor(debate_log, k, side) =
                    Show("error", side \o " text", TextOf(debate_log[k], side))

\* PRO's first call raised in the adapter, CON's found its credential
\* missing, PRO's second call succeeded
C25_Witness ==
    /\ pc = "done" /\ Len(debate_log) >= 2
    /\ calls[1].net /\ calls[1].vendor = "raise"
    /\ calls[2].adapter = "gemini" /\ ~calls[2].net
    /\ ~Failed(calls[3])
    /\ HasErrors(debate_log)
    /\ ShownFor(debate_log, 1, "PRO").fn = "error"
    /\ ShownFor(debate_log, 1, "CON").fn = "error"
    /\ ShownFor(debate_log, 2, "PRO").fn = "markdown"

\* the identifier of PRO is not supported
C25_WitnessUnsupported ==
    /\ pc = "done" /\ calls[1].adapter = "none"
    /\ ~Failed(calls[2])
    /\ HasErrors(<<debate_log[1]>>)
    /\ ShownFor(debate_log, 1, "PRO").fn = "error"

\* the same in a run of the application: once run_debate has returned with
\* a failed call, has_errors is set and the warning is shown, and the
\* finished run shows the failed side with st.error
C25_RunClassified ==
    \A k \in 1..Len(debate_log) : \A side \in {"PRO", "CON"} :
        Failed(calls[CallIndex(k, side)]) =>
            /\ app_pc \notin {"idle", "stopped", "debate"} =>
                  /\ has_errors
                  /\ OnScreen(Show("warning", "Some API calls failed during the debate. See error messages below.", <<>>))
            /\ app_pc = "done" =>
                  /\ OnScreen(Show("error", side \o " text", TextOf(debate_log[k], side)))
                  /\ ~OnScreen(Show("markdown", side \o " text", TextOf(debate_log[k], side)))

C25_RunWitness ==
    /\ app_pc = "done" /\ has_errors
    /\ Failed(calls[4]) /\ ~Failed(calls[3])
    /\ OnScreen(Show("error", "CON text", debate_log[2].con_response))
    /\ OnScreen(Show("markdown", "PRO text", debate_log[2].pro_response))

\* text is a contiguous part of the script s
Occurs(text, s) ==
    \E n \in 0..(Len(s) - Len(text)) : SubSeq(s, n + 1, n + Len(text)) = text

\* C26: a script sent to speech synthesis holds no failure sentinel: not
\* the error marker, not the summary-failure tag, no text of a failed debater
\* call, no text of a failed summarizer call, no judge error value.
C26_GenuineNarration ==
    \A i \in 1..Len(tts) :
        LET s == tts[i].text IN
        /\ ~Contains(s, ERR)
        /\ ~Contains(s, SummaryFailureTag)
        /\ \A c \in CallsOf("PRO") \cup CallsOf("CON") \cup CallsOf("SUMMARY") :
              Failed(calls[c]) => ~Occurs(calls[c].text, s)
        /\ JudgeFailed => ~Occurs(judging.text, s)

\* what the code does achieve: a narrated run has no failed Turn and its
\* script holds no judge error value and no verdict section; the only failure text a
\* script can hold is the summary's, which is narrated whenever the
\* summarizer's call failed
C26_TurnsAndJudgeGenuine ==
    \A i \in 1..Len(tts) :
        LET s == tts[i].text IN
        /\ \A c \in CallsOf("PRO") \cup CallsOf("CON") : ~Failed(calls[c])
        /\ ~AnyTurnFailed
        /\ JudgeFailed =>
              /\ ~Occurs(judging.text, s)
              /\ ~Contains(s, "Judge's Verdict")
        /\ ~Contains(s, SummaryFailureTag)
        /\ Contains(s, ERR) <=> \E c \in CallsOf("SUMMARY") : Failed(calls[c])
        /\ \A c \in CallsOf("SUMMARY") :
              Failed(calls[c]) => Occurs(<<"Debate Summary">> \o calls[c].text, s)

\* the summarizer failed, the judge failed, and the run was narrated
C26_SummaryFailureNarrated ==
    /\ app_pc = "done" /\ Len(tts) = 1 /\ audio_data.kind = "bytes"
    /\ JudgeFailed
    /\ \E c \in CallsOf("SUMMARY") : Failed(calls[c])
    /\ Contains(tts[1].text, ERR)

====
